---- MODULE Spec2Model ----
(***************************************************************************)
(* Model of geti_sdk.http_session.GetiSession: the authenticated session   *)
(* layer (login flows, request dispatch, error recovery, logout).          *)
(*                                                                         *)
(* Every method of the class is an operator that maps a context record     *)
(*   [self |-> the session's fields, wire |-> the HTTP requests sent so    *)
(*    far by the running operation, each with the answer it got,           *)
(*    exc |-> the exception being raised, ret |-> the value returned]      *)
(* to the SET of contexts the method can end in: one for every way the     *)
(* server can answer the requests the method sends.  An action commits     *)
(* one context of that set.                                                *)
(***************************************************************************)
EXTENDS Integers, Sequences, FiniteSets, TLC

VARIABLES
    self,      \* the GetiSession object: a record of its attributes
    phase,     \* how far __init__ got: "new", "authenticated", "fallback",
               \* "versioned", "constructed" (__init__ is about to return),
               \* "live" (in use), "failed" (__init__ raised)
    call,      \* the public operation the caller invoked, with its arguments
               \* and its stage: "ready" (none), "pending", "done"
    wire,      \* the HTTP requests sent by that operation (or by the step of
               \* __init__ that ran last), in order
    outcome,   \* how that operation ended: exception raised and value returned
    server,    \* what the server of this run can answer: the bounds of its
               \* redirect chains, cookies, versions and descriptors
    job        \* the Job object a caller of the session holds

vars == <<self, phase, call, wire, outcome, server, job>>

----------------------------------------------------------------------------
(* Bounds of the model *)

\* longest redirect chain the login page answers with, in the life of a session
MaxHops == 1

\* longest redirect chain the login page answers with, in a construction
MaxChain == 2

----------------------------------------------------------------------------
(* Module constants of geti_session.py *)

None == "None"

CSRF_COOKIE_NAME == "_oauth2_proxy_csrf"
PROXY_COOKIE_NAME == "_oauth2_proxy"
GETI_COOKIE_NAME == "geti-cookie"

INITIAL_HEADERS == [h \in {"Upgrade-Insecure-Requests"} |-> "1"]
SUCCESS_STATUS_CODES == {200, 201, 202}

AUTHENTICATION_DEX_OLD == "dex-old"
AUTHENTICATION_DEX_NEW == "dex-new"
AUTHENTICATION_CIDAAS == "cidaas"

\* geti_sdk.platform_versions: a version 1.x is modelled by its minor number x
GETI_18_VERSION == 8
GETI_114_VERSION == 14
LEGACY_API_VERSION == "legacy"

CSRF_HEADER == "x-geti-csrf-protection"
FORM_CONTENT_TYPE == "application/x-www-form-urlencoded"

\* headers a fresh requests.Session carries (the one __init__ pops later)
DEFAULT_HEADERS == [h \in {"Connection"} |-> "keep-alive"]

----------------------------------------------------------------------------
(* Python dictionaries: functions over a finite set of keys *)

EmptyDict == [k \in {} |-> None]

DictUpdate(d, e) ==
    [k \in (DOMAIN d) \cup (DOMAIN e) |-> IF k \in DOMAIN e THEN e[k] ELSE d[k]]

DictSet(d, key, val) == DictUpdate(d, [k \in {key} |-> val])

DictPop(d, key) == [k \in (DOMAIN d) \ {key} |-> d[k]]

DictGet(d, key, default) == IF key \in DOMAIN d THEN d[key] ELSE default

----------------------------------------------------------------------------
(* What the server can answer *)

CookieValues == {"c1"}
TokenValues == {"t1", "t2"}
Descriptors == {"unparsable", "dex", "other"}

\* platform versions (1.8, 1.14) and organization ids the server reports
Versions == {8, 14}
OrganizationIds == {"org1"}

\* an answer to a request: a response, or (err) an exception of the transport
\*   csrf:    the _oauth2_proxy_csrf cookie the response sets
\*   history: the response has a redirect history
\*   proxy:   the _oauth2_proxy cookie of the last response of the history
\*   code:    the final URL carries code=...
\*   val:     the value of the document's field the caller reads
\*   version: the version a product_info document reports
Blank ==
    [err |-> "none", status_code |-> 0, content_type |-> "", csrf |-> None,
     history |-> FALSE, proxy |-> None, code |-> FALSE, val |-> None, version |-> 0]

Response(status, content_type) ==
    [Blank EXCEPT !.status_code = status, !.content_type = content_type]

TransportError(e) == [Blank EXCEPT !.err = e]

\* answers to a REST request ("ConnectionAborted" is the builtin
\* ConnectionError("Connection aborted."))
Responses ==
    {Response(200, "application/json"), Response(200, "text/html"),
     Response(201, "application/json"), Response(401, "application/json"),
     Response(503, "application/json"), Response(500, "text/html")}
    \cup {TransportError(e) : e \in {"SSLError", "ConnectionAborted"}}

\* the cookie a server that tells its responses apart sets on the response at
\* a depth of the redirect chain
CookieNames == <<"c0", "c1", "c2", "c3", "c4">>

\* the server in the life of a session
SessionServer ==
    [hops |-> MaxHops, tagged |-> FALSE, versions |-> Versions,
     descriptors |-> Descriptors, responses |-> Responses, traced |-> FALSE]

\* the server of a construction, whose requests are kept on the wire step by
\* step (traced): longer chains, a cookie of its own on every
\* response of the chain, the versions around both thresholds (1.8, 1.13,
\* 1.14, 1.15), every shape of the deployment descriptor ("absent": no auth
\* entry, "untyped": an auth entry without a type), and REST answers that
\* start no re-authentication
SetupServer ==
    [hops |-> MaxChain, tagged |-> TRUE, versions |-> {8, 13, 14, 15},
     descriptors |-> Descriptors \cup {"absent", "untyped"},
     responses |-> {Response(200, "application/json"),
                    Response(201, "application/json"),
                    Response(503, "application/json"), Response(500, "text/html"),
                    TransportError("SSLError")},
     traced |-> TRUE]

\* the documents of a job the server reports, by name (None: a document
\* without the key "status")
JobDocuments == {"running", "finished"}

\* the job lists of a workspace the server reports, by name: each job has its
\* type, the state of its status, the task of its metadata (None: the metadata
\* names no task) and its project
JobListings == {"none", "training", "finished", "optimizing", "elsewhere", "several"}

\* the server of the callers of a session: no redirect before the login page,
\* one platform version, and the REST answers of an endpoint of jobs
ClientServer ==
    [hops |-> 0, tagged |-> FALSE, versions |-> {14}, descriptors |-> {"dex"},
     responses |-> {Response(200, "application/json"),
                    Response(403, "application/json"),
                    Response(404, "application/json"), Response(404, "text/html"),
                    Response(500, "application/json"),
                    Response(503, "application/json")},
     traced |-> FALSE]

\* the CSRF cookie values of a response of the login page when the server
\* still makes hops redirects
CsrfValues(hops) ==
    IF server.tagged THEN {CookieNames[server.hops - hops + 1]} ELSE CookieValues

\* a document that carries the field the caller of the endpoint reads
IsDocument(r) ==
    /\ r.err = "none"
    /\ r.content_type = "application/json"
    /\ r.status_code \in SUCCESS_STATUS_CODES

Answers(url) ==
    IF url = "service_accounts/access_token"
    THEN {[Response(200, "application/json") EXCEPT !.val = v] :
              v \in TokenValues \cup {None}}
         \cup {Response(200, "text/html"), Response(401, "application/json"),
               Response(503, "application/json"), Response(500, "text/html")}
    ELSE IF url = "profile"
    THEN UNION {IF IsDocument(r)
                THEN {[r EXCEPT !.val = v] : v \in OrganizationIds \cup {None}}
                ELSE {r} : r \in server.responses}
    ELSE IF url = "product_info"
    THEN UNION {IF IsDocument(r)
                THEN {[r EXCEPT !.version = v] : v \in server.versions}
                ELSE {r} : r \in server.responses}
    ELSE IF url = "workspaces/workspace/jobs/job"
    THEN UNION {IF IsDocument(r)
                THEN {[r EXCEPT !.val = d] : d \in JobDocuments \cup {None}}
                ELSE {r} : r \in server.responses}
    ELSE IF url = "workspaces/workspace/jobs"
    THEN UNION {IF IsDocument(r)
                THEN {[r EXCEPT !.val = l] : l \in JobListings \cup {None}}
                ELSE {r} : r \in server.responses}
    ELSE server.responses

DescriptorAnswers ==
    {[Response(200, "") EXCEPT !.val = d] : d \in server.descriptors}

\* answers of the login page; after hops redirects the server redirects no
\* more. The page that ends the chain may set the CSRF cookie; a server that
\* tags its cookies may set one on a redirecting response as well
LoginAnswers(hops) ==
    {[Response(200, "text/html") EXCEPT !.csrf = v] : v \in CsrfValues(hops) \cup {None}}
    \cup
    {[Response(302, "text/html") EXCEPT !.csrf = v] :
         v \in IF hops = 0 THEN {}
               ELSE IF server.tagged THEN CsrfValues(hops) \cup {None}
               ELSE {None}}

\* answers to the credential POST of the legacy login
LegacyPosts ==
    {[Response(200, "text/html") EXCEPT !.history = TRUE, !.proxy = v] :
         v \in CookieValues \cup {None}}
    \cup {Response(200, "text/html"), TransportError("RequestsConnectionError")}

\* answers to the credential POST of the modern login
ModernPosts ==
    {[Response(200, "text/html") EXCEPT !.code = b] : b \in BOOLEAN}
    \cup {Response(401, "text/html"), Response(500, "text/html")}

DexTokenAnswers ==
    {[Response(200, "application/json") EXCEPT !.val = t] : t \in TokenValues \cup {None}}

\* answers to the sign-out request: a response, a transport error, or the
\* AttributeError / TypeError of a session that is being torn down
SignOutAnswers ==
    {Response(200, "text/html"), Response(500, "text/html")}
    \cup {TransportError(e) : e \in {"SSLError", "RequestsConnectionError",
                                     "ConnectionAborted", "AttributeError", "TypeError"}}

----------------------------------------------------------------------------
(* Contexts, exceptions, return values *)

\* an exception: its class, and for a GetiRequestException the status code and
\* the response_data it is constructed with: None, "body" (the decoded JSON
\* body) or "content, reason" (message: response.content, error_code:
\* response.reason)
NoExc == [type |-> "none", status_code |-> 0, response_data |-> None,
          method |-> None, url |-> None]
NoRet == [kind |-> "none", val |-> None, response |-> Blank]

Raise(c, type, status) ==
    [c EXCEPT !.exc = [NoExc EXCEPT !.type = type, !.status_code = status]]

\* an exception that carries the method and the URL of a request as well
RaiseWith(c, type, status, response_data, method, url) ==
    [c EXCEPT !.exc = [type |-> type, status_code |-> status,
                       response_data |-> response_data,
                       method |-> method, url |-> url]]

\* response.request.method and response.url of the response just received
Sent(c) == c.wire[Len(c.wire)]

Return(c, kind, val, response) ==
    [c EXCEPT !.ret = [kind |-> kind, val |-> val, response |-> response]]

Raised(c) == c.exc.type # "none"

\* the rest of a method runs in every context that raised nothing
Then(S, F(_)) == UNION {IF Raised(c) THEN {c} ELSE F(c) : c \in S}

\* the cookies argument of a request: not given, or a dictionary
NotAttached == {}
Attached(d) == {d}

\* self.request / self.get / self.post answered by r: the session headers are
\* merged with the headers of the call, and the request goes on the wire
Request(c, url, method, headers, cookies, r) ==
    [c EXCEPT !.wire = Append(@, [url |-> url, method |-> method,
                                  headers |-> DictUpdate(c.self.headers, headers),
                                  cookies |-> cookies, files |-> EmptyDict,
                                  requesturl |-> <<url>>, response |-> r])]

\* a response received through the session stores its cookies in the jar
StoreCookie(c, name, value) ==
    IF value = None THEN c ELSE [c EXCEPT !.self.cookies = @ \cup {name}]

----------------------------------------------------------------------------
(* Login *)

\* a choice that takes every parsable document for the modern login
ServiceOfParsable(desc) ==
    IF desc = "unparsable" THEN AUTHENTICATION_DEX_OLD ELSE AUTHENTICATION_DEX_NEW

\* authentication_service, lines 599-609: a document without an auth entry
\* counts as {"type": "dex"}, an auth entry without a type is not "dex"
ServiceOf(desc) ==
    IF desc = "unparsable" THEN AUTHENTICATION_DEX_OLD
    ELSE IF desc \in {"dex", "absent"} THEN AUTHENTICATION_DEX_NEW
    ELSE AUTHENTICATION_CIDAAS

\* a property that fetches the descriptor on every read
authentication_service_uncached(c) ==
    {[Request(c, "deployment-config.json", "GET", EmptyDict, NotAttached, r)
         EXCEPT !.self._auth_service = ServiceOf(r.val)] : r \in DescriptorAnswers}

\* property authentication_service: the deployment descriptor is fetched only
\* while the cached value is unset
authentication_service(c) ==
    IF c.self._auth_service = None
    THEN {[Request(c, "deployment-config.json", "GET", EmptyDict, NotAttached, r)
              EXCEPT !.self._auth_service = ServiceOf(r.val)] : r \in DescriptorAnswers}
    ELSE {c}

\* a hop that prefers the cookie of the response that issued the redirect
CapturedCsrfOfIssuer(redirected, response) ==
    IF response.csrf # None THEN response.csrf ELSE redirected.csrf

\* _follow_login_redirects, lines 172-174: proxy_csrf
CapturedCsrf(redirected, response) ==
    IF redirected.csrf # None THEN redirected.csrf ELSE response.csrf

\* _follow_login_redirects; hops bounds the redirects the server still makes
RECURSIVE _follow_login_redirects(_, _, _, _)
_follow_login_redirects(c, response, hops, use_legacy_dex) ==
    IF use_legacy_dex
    THEN IF response.status_code \in {302, 303}
         THEN UNION {
                LET c1 == StoreCookie(Request(c, "redirect_url", "GET", EmptyDict,
                                              NotAttached, redirected),
                                      CSRF_COOKIE_NAME, redirected.csrf)
                    proxy_csrf == CapturedCsrf(redirected, response)
                    c2 == IF proxy_csrf # None
                          THEN [c1 EXCEPT !.self._cookies =
                                              DictSet(@, CSRF_COOKIE_NAME, proxy_csrf)]
                          ELSE c1
                IN  _follow_login_redirects(c2, redirected, hops - 1, use_legacy_dex) :
                redirected \in LoginAnswers(hops - 1)}
         ELSE {Return(c, "url", "login_page", response)}
    ELSE IF response.status_code \in {302, 303}
         THEN {Return(c, "url", "login_page", response)}
         ELSE {Return(c, "url", None, response)}

\* _get_initial_login_url
_get_initial_login_url(c, use_legacy_dex) ==
    LET url == IF use_legacy_dex THEN "host" ELSE "dex/auth/regular_users"
        answers == IF use_legacy_dex THEN LoginAnswers(server.hops)
                   ELSE {r \in LoginAnswers(1) : r.csrf = None}
    IN  {Raise(Request(c, url, "GET", EmptyDict, NotAttached, TransportError(e)), e, 0) :
             e \in {"SSLError", "RequestsConnectionError"}}
        \cup
        UNION {_follow_login_redirects(
                   StoreCookie(Request(c, url, "GET", EmptyDict, NotAttached, r),
                               CSRF_COOKIE_NAME, r.csrf),
                   r, server.hops, use_legacy_dex) : r \in answers}

\* _handle_legacy_dex_response
_handle_legacy_dex_response(c, response) ==
    IF ~response.history
    THEN {Raise(c, "ValueError", 0)}
    ELSE IF response.proxy # None
         THEN {[c EXCEPT !.self._cookies = DictSet(@, PROXY_COOKIE_NAME, response.proxy)]}
         ELSE {c}     \* only a warning is logged

\* a handler that reports every status other than 200 the same way
_handle_dex_response_one_failure(c, response) ==
    IF response.status_code = 200
    THEN IF ~response.code
         THEN {Raise(c, "IndexError", 0)}
         ELSE {[Request(c, "dex/token", "POST", EmptyDict, NotAttached, r)
                   EXCEPT !.self._cookies = DictSet(@, GETI_COOKIE_NAME, r.val)] :
                   r \in DexTokenAnswers}
    ELSE {RaiseWith(c, "GetiRequestException", response.status_code,
                    "content, reason", Sent(c).method, Sent(c).requesturl)}

\* _handle_dex_response
_handle_dex_response(c, response) ==
    IF response.status_code = 200
    THEN IF ~response.code
         THEN {Raise(c, "IndexError", 0)}
         ELSE {[Request(c, "dex/token", "POST", EmptyDict, NotAttached, r)
                   EXCEPT !.self._cookies = DictSet(@, GETI_COOKIE_NAME, r.val)] :
                   r \in DexTokenAnswers}
    ELSE IF response.status_code = 401
         THEN {Raise(c, "ValueError", 0)}
         ELSE {RaiseWith(c, "GetiRequestException", response.status_code,
                         "content, reason", Sent(c).method, Sent(c).requesturl)}

\* authenticate, lines 249-273: the credentials are posted to login_path
SubmitCredentials(c, login_path, use_legacy_dex) ==
    LET c3 == [c EXCEPT !.self.headers = [h \in {"Content-Type"} |-> FORM_CONTENT_TYPE],
                        !.ret = NoRet]
        csrf == DictGet(c3.self._cookies, CSRF_COOKIE_NAME, None)
        cookies == IF use_legacy_dex THEN Attached([k \in {CSRF_COOKIE_NAME} |-> csrf])
                   ELSE Attached(EmptyDict)
        headers == IF use_legacy_dex THEN [k \in {"Cookie"} |-> csrf]
                   ELSE c3.self.headers
    IN
    IF login_path = None THEN {Raise(c3, "MissingSchema", 0)}
    ELSE UNION {
           LET c4 == Request(c3, login_path, "POST", headers, cookies, r) IN
           IF r.err # "none" THEN {Raise(c4, r.err, 0)}
           ELSE Then(IF use_legacy_dex
                     THEN _handle_legacy_dex_response(
                              StoreCookie(c4, PROXY_COOKIE_NAME, r.proxy), r)
                     ELSE _handle_dex_response(c4, r),
                     LAMBDA c6 : {[c6 EXCEPT !.self.logged_in = TRUE]}) :
           r \in IF use_legacy_dex THEN LegacyPosts ELSE ModernPosts}

\* authenticate, lines 219-273: the part after the already-logged-in check
Login(c) ==
    Then(Then(authentication_service(c), LAMBDA c9 :
                 IF c9.self._auth_service = AUTHENTICATION_DEX_OLD THEN {c9}
                 ELSE authentication_service(c9)),
         LAMBDA c0 :
        LET svc == c0.self._auth_service
            use_legacy_dex == (svc = AUTHENTICATION_DEX_OLD)
        IN
        IF svc \notin {AUTHENTICATION_DEX_OLD, AUTHENTICATION_DEX_NEW}
        THEN Then(authentication_service(c0),
                  LAMBDA c8 : {Raise(c8, "ValueError", 0)})
        ELSE UNION {
               IF c2.exc.type = "SSLError" THEN {c2}
               ELSE IF c2.exc.type = "RequestsConnectionError"
               THEN {Raise(c2, "ValueError", 0)}
               ELSE SubmitCredentials(c2, c2.ret.val, use_legacy_dex) :
               c2 \in _get_initial_login_url([c0 EXCEPT !.self.cookies = {}],
                                             use_legacy_dex)})

\* authenticate without lines 216-218: the handshake runs on every call
authenticate_without_check(c) == Login(c)

\* authenticate
authenticate(c) ==
    IF c.self.logged_in THEN {c} ELSE Login(c)

----------------------------------------------------------------------------
(* Request dispatch and error recovery *)

\* _update_headers_for_content_type
_update_headers_for_content_type(headers, content_type) ==
    IF content_type = "json" THEN DictSet(headers, "Content-Type", "application/json")
    ELSE IF content_type = "jpeg" THEN DictSet(headers, "Content-Type", "image/jpeg")
    ELSE IF content_type = "multipart" THEN DictPop(headers, "Content-Type")
    ELSE IF content_type = "" THEN DictPop(headers, "Content-Type")
    ELSE IF content_type = "zip" THEN DictSet(headers, "Content-Type", "application/zip")
    ELSE headers

csrf_header_methods == {"POST", "PUT", "DELETE", "PATCH"}

\* get_rest_response, lines 342-346
SetCsrfHeader(headers, method) ==
    IF method \in csrf_header_methods
    THEN DictSet(headers, CSRF_HEADER, "1")
    ELSE DictPop(headers, CSRF_HEADER)

\* request_params with the cookie map whatever the kind of the session is
RequestCookiesOfAnyKind(s) == Attached(s._cookies)

\* the request_params of a call: "cookies" refers to the session's cookie map,
\* which the login updates in place
RequestCookies(s) == IF ~s.use_token THEN Attached(s._cookies) ELSE NotAttached

\* get_rest_response, lines 366-371: the response goes to the error handler
NeedsErrorHandling(response, allow_text_response) ==
    /\ \/ response.status_code \notin SUCCESS_STATUS_CODES
       \/ response.content_type = "text/html"
    /\ ~(response.content_type = "text/html" /\ allow_text_response)

\* line 509 with 503 among the statuses that re-authenticate
ReauthenticatesOnUnavailable(response, allow_reauthentication) ==
    response.status_code \in {200, 401, 503} /\ allow_reauthentication

\* _handle_error_response, line 509
Reauthenticates(response, allow_reauthentication) ==
    response.status_code \in {200, 401} /\ allow_reauthentication

\* retry_request set for every response that reaches the error handler
RetryRequestAlways(response, allow_reauthentication) == TRUE

\* _handle_error_response, lines 507-528: the value of retry_request
RetryRequest(response, allow_reauthentication) ==
    \/ Reauthenticates(response, allow_reauthentication)
    \/ response.status_code = 503

\* the raise without the except clause of lines 548-549: a body that is no
\* JSON ends in the error of the decoder
RaiseRequestExceptionUncaught(c, response, req) ==
    IF response.err = "fake" THEN Raise(c, "AttributeError", 0)
    ELSE IF response.content_type # "application/json"
    THEN Raise(c, "JSONDecodeError", 0)
    ELSE RaiseWith(c, "GetiRequestException", response.status_code, "body",
                   req.method, req.requesturl)

\* _handle_error_response, lines 546-557; the body of the response made up for
\* an aborted connection cannot be read
RaiseRequestException(c, response, req) ==
    IF response.err = "fake" THEN Raise(c, "AttributeError", 0)
    ELSE RaiseWith(c, "GetiRequestException", response.status_code,
                   IF response.content_type = "application/json" THEN "body"
                   ELSE None,
                   req.method, req.requesturl)

\* _handle_error_response, lines 543-544: the retried response is returned
RetrySucceeded(response) == response.status_code \in SUCCESS_STATUS_CODES

AccessTokenRequest ==
    [url |-> "service_accounts/access_token", method |-> "POST", contenttype |-> "json",
     allow_reauthentication |-> FALSE, include_organization_id |-> FALSE,
     allow_text_response |-> FALSE]

RECURSIVE get_rest_response(_, _)

\* an exchange that passes every GetiRequestException on as it is
_acquire_access_token_untranslated(c) ==
    {IF Raised(c1) THEN c1
     ELSE IF c1.ret.kind # "json" THEN Raise(c1, "AttributeError", 0)
     ELSE Return(c1, "token", c1.ret.response.val, c1.ret.response) :
     c1 \in get_rest_response(c, AccessTokenRequest)}

\* _acquire_access_token
_acquire_access_token(c) ==
    {IF c1.exc.type = "GetiRequestException"
     THEN IF c1.exc.status_code = 401 THEN Raise(c1, "ValueError", 0) ELSE c1
     ELSE IF Raised(c1) THEN c1
     ELSE IF c1.ret.kind # "json" THEN Raise(c1, "AttributeError", 0)
     ELSE Return(c1, "token", c1.ret.response.val, c1.ret.response) :
     c1 \in get_rest_response(c, AccessTokenRequest)}

\* _get_organization_id, lines 621-623
ProfileRequest ==
    [url |-> "profile", method |-> "GET", contenttype |-> "json",
     allow_reauthentication |-> TRUE, include_organization_id |-> FALSE,
     allow_text_response |-> FALSE]

default_org_id == "000000000000000000000001"

\* an organization id read from the profile whatever the version is
_get_organization_id_of_profile(c) ==
    Then(get_rest_response(c, ProfileRequest), LAMBDA c1 :
        IF c1.ret.kind # "json" THEN {Raise(c1, "AttributeError", 0)}
        ELSE IF c1.ret.response.val = None THEN {Raise(c1, "ValueError", 0)}
        ELSE {Return(c1, "org", c1.ret.response.val, c1.ret.response)})

\* an organization id returned as the profile gives it, present or not
_get_organization_id_unchecked(c) ==
    IF c.self._product_info.kind # "json" THEN {Raise(c, "AttributeError", 0)}
    ELSE IF c.self._product_info.version < GETI_114_VERSION
    THEN {Return(c, "org", default_org_id, Blank)}
    ELSE Then(get_rest_response(c, ProfileRequest), LAMBDA c1 :
             IF c1.ret.kind # "json" THEN {Raise(c1, "AttributeError", 0)}
             ELSE {Return(c1, "org", c1.ret.response.val, c1.ret.response)})

\* _get_organization_id
_get_organization_id(c) ==
    IF c.self._product_info.kind # "json" THEN {Raise(c, "AttributeError", 0)}
    ELSE IF c.self._product_info.version < GETI_114_VERSION
    THEN {Return(c, "org", default_org_id, Blank)}
    ELSE Then(get_rest_response(c, ProfileRequest), LAMBDA c1 :
             IF c1.ret.kind # "json" THEN {Raise(c1, "AttributeError", 0)}
             ELSE IF c1.ret.response.val = None THEN {Raise(c1, "ValueError", 0)}
             ELSE {Return(c1, "org", c1.ret.response.val, c1.ret.response)})

\* property organization_id: the id is fetched only while the cached value is
\* unset
organization_id(c) ==
    IF c.self._organization_id = None
    THEN Then(_get_organization_id(c), LAMBDA c1 :
             {[c1 EXCEPT !.self._organization_id = c1.ret.val]})
    ELSE {Return(c, "org", c.self._organization_id, Blank)}

\* a URL is the sequence of its segments: the segments of a relative path
Segments(url) ==
    IF url = "organizations/org1/projects" THEN <<"organizations", "org1", "projects">>
    ELSE <<url>>

\* str.startswith
StartsWith(s, prefix) ==
    /\ Len(prefix) <= Len(s)
    /\ SubSeq(s, 1, Len(prefix)) = prefix

\* self.config.base_url: the REST root of the host for the API version of the
\* configuration
ConfigBaseUrl(s) == <<"host", "api", s.config.api_version>>

\* property base_url (the property version reads the keys of the product info)
base_url(c) ==
    IF c.self._product_info.kind # "json" THEN {Raise(c, "AttributeError", 0)}
    ELSE IF c.self._product_info.version <= GETI_18_VERSION
    THEN {Return(c, "url", ConfigBaseUrl(c.self), Blank)}
    ELSE Then(organization_id(c), LAMBDA c1 :
             {Return(c1, "url",
                     ConfigBaseUrl(c1.self) \o <<"organizations", c1.ret.val>>, Blank)})

\* a URL put together without a look at the start of the relative path
RequestUrlOfBase(c, req) ==
    LET url == Segments(req.url) IN
    IF ~req.include_organization_id
    THEN {Return(c, "url", ConfigBaseUrl(c.self) \o url, Blank)}
    ELSE Then(organization_id(c), LAMBDA c1 :
             Then(base_url(c1), LAMBDA c2 :
                 {Return(c2, "url", c2.ret.val \o url, Blank)}))

\* get_rest_response, lines 310-315: the URL of the request is put together
RequestUrl(c, req) ==
    LET url == Segments(req.url) IN
    IF ~req.include_organization_id
    THEN {Return(c, "url", ConfigBaseUrl(c.self) \o url, Blank)}
    ELSE Then(organization_id(c), LAMBDA c1 :
             IF StartsWith(url, <<"organizations", c1.ret.val>>)
             THEN {Return(c1, "url", ConfigBaseUrl(c1.self) \o url, Blank)}
             ELSE Then(base_url(c1), LAMBDA c2 :
                      {Return(c2, "url", c2.ret.val \o url, Blank)}))

\* get_rest_response, lines 332-337: request_params, the arguments of the
\* request and the URL resolved for it
RequestParams(req, requesturl) == [requesturl |-> requesturl] @@ req

\* a recovery without line 512: logged_in keeps its value
ReauthenticateLoggedIn(c) ==
    IF ~c.self.use_token
    THEN authenticate(c)
    ELSE Then(_acquire_access_token(c), LAMBDA c1 :
             {[c1 EXCEPT !.self.headers =
                             DictSet(@, "Authorization", "Bearer " \o c1.ret.val),
                         !.ret = NoRet]})

\* _handle_error_response, lines 509-522
Reauthenticate(c) ==
    LET c0 == [c EXCEPT !.self.logged_in = FALSE] IN
    IF ~c0.self.use_token
    THEN authenticate(c0)
    ELSE Then(_acquire_access_token(c0), LAMBDA c1 :
             {[c1 EXCEPT !.self.headers =
                             DictSet(@, "Authorization", "Bearer " \o c1.ret.val),
                         !.ret = NoRet]})

\* the file buffers of a multipart body and their lengths: data is a
\* dictionary of part name to open buffer, each at its start
FileSizes == [media |-> 2, annotations |-> 1]

\* get_rest_response, lines 317-337: request_params holds the buffers under
\* "files" for a multipart POST or PUT, and has no such key otherwise
HasFiles(req) == req.method \in {"POST", "PUT"} /\ req.contenttype = "multipart"

FilesOf(req) == IF HasFiles(req) THEN [f \in DOMAIN FileSizes |-> 0] ELSE EmptyDict

\* self.request with request_params: the body is encoded from each buffer's
\* offset on, which leaves the buffers of the request at their end, and the
\* request goes on the wire; c.files are the open buffers and their offsets
Upload(c, req, r) ==
    LET c1 == Request(c, req.url, req.method, EmptyDict, RequestCookies(c.self), r)
        sent == DOMAIN FilesOf(req)
    IN  [c1 EXCEPT !.wire[Len(c1.wire)].files = [f \in sent |-> c.files[f]],
                   !.wire[Len(c1.wire)].requesturl = req.requesturl,
                   !.files = [f \in DOMAIN @ |-> IF f \in sent THEN FileSizes[f]
                                                 ELSE @[f]]]

\* a retry that leaves the buffers where the first attempt left them
RewindNothing(files, content_type) == files

\* _handle_error_response, lines 537-539: file_buffer.seek(0, 0)
Rewind(files, content_type) ==
    IF content_type = "multipart" THEN [f \in DOMAIN files |-> 0] ELSE files

\* a retry that makes the request again as a GET
RetryAsGet(c, req) ==
    IF req.contenttype = "multipart" /\ ~HasFiles(req)
    THEN {Raise(c, "KeyError", 0)}
    ELSE
    LET c2 == [c EXCEPT !.self.headers =
                            _update_headers_for_content_type(@, req.contenttype),
                        !.files = Rewind(@, req.contenttype)]
    IN  {LET c3 == Upload(c2, [req EXCEPT !.method = "GET"], r)
         IN  IF r.err # "none" THEN Raise(c3, r.err, 0)
             ELSE IF RetrySucceeded(r) THEN Return(c3, "response", None, r)
             ELSE RaiseRequestException(c3, r, req) : r \in Answers(req.url)}

\* a retry that sends the cookies and the headers of the first attempt
RetryWithFirstCredentials(c, req) ==
    IF req.contenttype = "multipart" /\ ~HasFiles(req)
    THEN {Raise(c, "KeyError", 0)}
    ELSE
    LET c2 == [c EXCEPT !.files = Rewind(@, req.contenttype)]
        first == c.wire[CHOOSE i \in 1..Len(c.wire) : c.wire[i].url = req.url]
    IN  {LET u == Upload(c2, req, r)
             c3 == [u EXCEPT !.wire[Len(u.wire)].cookies = first.cookies,
                             !.wire[Len(u.wire)].headers = first.headers]
         IN  IF r.err # "none" THEN Raise(c3, r.err, 0)
             ELSE IF RetrySucceeded(r) THEN Return(c3, "response", None, r)
             ELSE RaiseRequestException(c3, r, req) : r \in Answers(req.url)}

\* _handle_error_response, lines 533-544: the request is made again; a
\* multipart content type without files in request_params is a KeyError
Retry(c, req) ==
    IF req.contenttype = "multipart" /\ ~HasFiles(req)
    THEN {Raise(c, "KeyError", 0)}
    ELSE
    LET c2 == [c EXCEPT !.self.headers =
                            _update_headers_for_content_type(@, req.contenttype),
                        !.files = Rewind(@, req.contenttype)]
    IN  {LET c3 == Upload(c2, req, r)
         IN  IF r.err # "none" THEN Raise(c3, r.err, 0)
             ELSE IF RetrySucceeded(r) THEN Return(c3, "response", None, r)
             ELSE RaiseRequestException(c3, r, req) : r \in Answers(req.url)}

\* _handle_error_response making the request again a second time when the
\* retried request fails
_handle_error_response_retrying_twice(c, response, req) ==
    Then(IF Reauthenticates(response, req.allow_reauthentication)
         THEN Reauthenticate(c)
         ELSE {c},
         LAMBDA c1 :
             IF RetryRequest(response, req.allow_reauthentication)
             THEN UNION {IF c2.exc.type = "GetiRequestException"
                         THEN Retry([c2 EXCEPT !.exc = NoExc], req)
                         ELSE {c2} : c2 \in Retry(c1, req)}
             ELSE {RaiseRequestException(c1, response, req)})

\* _handle_error_response
_handle_error_response(c, response, req) ==
    Then(IF Reauthenticates(response, req.allow_reauthentication)
         THEN Reauthenticate(c)
         ELSE {c},
         LAMBDA c1 :
             IF RetryRequest(response, req.allow_reauthentication)
             THEN Retry(c1, req)
             ELSE {RaiseRequestException(c1, response, req)})

\* get_rest_response, lines 380-385
Result(c) ==
    IF Raised(c) THEN c
    ELSE IF c.ret.response.content_type = "application/json"
    THEN Return(c, "json", None, c.ret.response)
    ELSE Return(c, "raw", None, c.ret.response)

\* get_rest_response, lines 317-385: the request is dispatched
Dispatch(c1, req) ==
    IF /\ req.method \in {"POST", "PUT"}
       /\ req.contenttype \notin {"json", "multipart", "jpeg", "zip"}
    THEN {Raise(c1, "ValueError", 0)}
    ELSE
    LET c2 == [c1 EXCEPT !.self.headers = SetCsrfHeader(@, req.method),
                         !.files = DictUpdate(@, FilesOf(req))] IN
    UNION {
      LET c3 == Upload(c2, req, r)
          response == IF r.err = "ConnectionAborted"
                      THEN [Response(401, "") EXCEPT !.err = "fake"]
                      ELSE r
      IN  IF r.err = "SSLError" THEN {Raise(c3, r.err, 0)}
          ELSE {Result(c4) :
                   c4 \in IF NeedsErrorHandling(response, req.allow_text_response)
                          THEN _handle_error_response(c3, response, req)
                          ELSE {Return(c3, "response", None, response)}} :
      r \in Answers(req.url)}

\* get_rest_response
get_rest_response(c, req) ==
    Then(RequestUrl([c EXCEPT !.self.headers =
                                  _update_headers_for_content_type(@, req.contenttype)],
                    req),
         LAMBDA c1 : Dispatch([c1 EXCEPT !.ret = NoRet],
                              RequestParams(req, c1.ret.val)))

----------------------------------------------------------------------------
(* Job and TrainingClient, the callers of a session                        *)

\* Job.relative_url, of a job whose workspace id is set
relative_url(j) == "workspaces/" \o j.workspace_id \o "/jobs/job"

\* Job.cancel, lines 298-300: the arguments of the request
CancelRequest(j) ==
    [url |-> relative_url(j), method |-> "DELETE", contenttype |-> "json",
     allow_reauthentication |-> TRUE, include_organization_id |-> TRUE,
     allow_text_response |-> TRUE]

\* Job.cancel: the end contexts of the call, each with the job as it is then;
\* the workspace id of a job that was never set is a ValueError of relative_url
cancel(c, j) ==
    IF j.workspace_id = None
    THEN {[ctx |-> Raise(c, "ValueError", 0), job |-> j]}
    ELSE {IF ~Raised(c1)
          THEN [ctx |-> Return(c1, "job", None, Blank),
                job |-> [j EXCEPT !.status_state = "CANCELLED"]]
          ELSE IF c1.exc.type = "GetiRequestException" /\ c1.exc.status_code = 404
          THEN [ctx |-> Return([c1 EXCEPT !.exc = NoExc], "job", None, Blank),
                job |-> [j EXCEPT !.status_state = "INACTIVE"]]
          ELSE [ctx |-> c1, job |-> j] :
          c1 \in get_rest_response(c, CancelRequest(j))}

\* the attribute steps of a job: None, or a list of steps, each step by the
\* state it reports ("absent" for a step without the key "state")
NoSteps == {}
StepList(steps) == {steps}

\* the documents of a job: its status and its steps
JobDocument ==
    [running |-> [state |-> "RUNNING", message |-> <<>>,
                  steps |-> <<"finished", "running">>],
     finished |-> [state |-> "FINISHED", message |-> <<>>,
                   steps |-> <<"finished", "finished">>]]

\* Job.update, line 272: the arguments of the request
UpdateRequest(j) ==
    [url |-> relative_url(j), method |-> "GET", contenttype |-> "json",
     allow_reauthentication |-> TRUE, include_organization_id |-> TRUE,
     allow_text_response |-> FALSE]

\* Job.update, lines 281-287: the job takes the status, the state and the
\* steps of the document; reading _geti_version of a job whose version was
\* never set is an AttributeError (line 226 only annotates the attribute)
Updated(c, j) ==
    IF c.ret.kind # "json" THEN [ctx |-> Raise(c, "TypeError", 0), job |-> j]
    ELSE IF c.ret.response.val = None THEN [ctx |-> Raise(c, "KeyError", 0), job |-> j]
    ELSE LET d == JobDocument[c.ret.response.val]
             j1 == [j EXCEPT !.status_state = d.state, !.status_message = d.message,
                             !.state = d.state, !.steps = StepList(d.steps)]
         IN  IF ~j1.has_geti_version
             THEN [ctx |-> Raise(c, "AttributeError", 0), job |-> j1]
             ELSE IF j1._geti_version # 0
             THEN [ctx |-> Return(c, "job", None, Blank), job |-> j1]
             ELSE IF c.self._product_info.kind # "json"
             THEN [ctx |-> Raise(c, "AttributeError", 0), job |-> j1]
             ELSE [ctx |-> Return(c, "job", None, Blank),
                   job |-> [j1 EXCEPT !._geti_version = c.self._product_info.version]]

\* Job.update: a GetiRequestException with status 403 returns the job as it
\* is; one with another status leaves the except clause without a response,
\* and line 281 reads the unbound local variable response
update(c, j) ==
    IF j.workspace_id = None
    THEN {[ctx |-> Raise(c, "ValueError", 0), job |-> j]}
    ELSE {IF c1.exc.type = "GetiRequestException"
          THEN IF c1.exc.status_code = 403
               THEN [ctx |-> Return([c1 EXCEPT !.exc = NoExc], "job", None, Blank),
                     job |-> j]
               ELSE [ctx |-> Raise(c1, "UnboundLocalError", 0), job |-> j]
          ELSE IF Raised(c1) THEN [ctx |-> c1, job |-> j]
          ELSE Updated(c1, j) :
          c1 \in get_rest_response(c, UpdateRequest(j))}

\* the jobs of a listing
Training(task, project) ==
    [type |-> "train", state |-> "running", task |-> task, project |-> project]

JobLists ==
    [none |-> <<>>,
     training |-> <<Training("task", "project")>>,
     finished |-> <<[Training("task", "project") EXCEPT !.state = "finished"]>>,
     optimizing |-> <<[Training("task", "project") EXCEPT !.type = "optimize"]>>,
     elsewhere |-> <<Training("other task", "project"), Training(None, "project"),
                     Training("foreign task", "other project")>>,
     several |-> <<[Training("task", "project") EXCEPT !.type = "optimize"],
                   Training("task", "project"), Training("task", "project")>>]

\* TrainingClient.get_jobs, lines 74-76
JobsRequest ==
    [url |-> "workspaces/workspace/jobs", method |-> "GET", contenttype |-> "json",
     allow_reauthentication |-> TRUE, include_organization_id |-> TRUE,
     allow_text_response |-> FALSE]

\* TrainingClient.get_jobs with project_only, for a version of Geti: the jobs
\* of the project among the jobs of the response
get_jobs(c) ==
    Then(get_rest_response(c, JobsRequest), LAMBDA c1 :
        IF c1.ret.kind # "json" THEN {Raise(c1, "TypeError", 0)}
        ELSE IF c1.ret.response.val = None THEN {Raise(c1, "KeyError", 0)}
        ELSE {Return(c1, "jobs",
                     SelectSeq(JobLists[c1.ret.response.val],
                               LAMBDA j : j.project = "project"),
                     c1.ret.response)})

\* TrainingClient.get_jobs_for_task with running_only
get_jobs_for_task(c, task) ==
    Then(get_jobs(c), LAMBDA c1 :
        {[c1 EXCEPT !.ret.val =
             SelectSeq(@, LAMBDA j : /\ j.task # None
                                     /\ j.task = task
                                     /\ j.state = "running")]})

\* a filter that takes the jobs of another type for training jobs
IsOptimizeJob(j) == j.type = "optimize"

\* train_task, line 199: job.type == JobType.TRAIN
IsTrainJob(j) == j.type = "train"

\* train_task, lines 223-225
TrainRequest ==
    [url |-> "workspaces/workspace/projects/project/train", method |-> "POST",
     contenttype |-> "json", allow_reauthentication |-> TRUE,
     include_organization_id |-> TRUE, allow_text_response |-> FALSE]

\* train_task, lines 223-246: the training request is submitted and the job
\* it made is looked up, which ends with the job or in a RuntimeError
SubmitTraining(c) ==
    Then(get_rest_response(c, TrainRequest), LAMBDA c1 :
        IF c1.ret.kind # "json" THEN {Raise(c1, "TypeError", 0)}
        ELSE {Return(c1, "job", None, c1.ret.response),
              Raise(c1, "RuntimeError", 0)})

\* train_task, lines 198-199: the training jobs of the task that the server
\* lists
task_training_jobs(c) ==
    IF c.self._product_info.kind # "json" THEN {Raise(c, "AttributeError", 0)}
    ELSE Then(get_jobs_for_task(c, "task"), LAMBDA c1 :
        {Return(c1, "jobs", SelectSeq(c1.ret.val, IsTrainJob), Blank)})

\* a train_task that awaits only when several training jobs are running
SeveralJobsRunning(jobs) == Len(jobs) >= 2

\* train_task, line 208: a training job of the task is running
JobsRunning(jobs) == Len(jobs) >= 1

\* TrainingClient.monitor_jobs, lines 248-266: the call blocks until the jobs
\* ended or the timeout passed and returns the jobs, or it raises what the
\* monitoring raised
monitor_jobs(c, jobs) ==
    {Return(c, "jobs", jobs, Blank), Raise(c, "Exception", 0)}

----------------------------------------------------------------------------
(* Logout *)

\* a logout that forgets the organization as well
ClearSessionAndOrganization(s) ==
    [s EXCEPT !._cookies = EmptyDict, !.cookies = {}, !.headers = INITIAL_HEADERS,
              !.logged_in = FALSE, !._organization_id = None]

\* logout, lines 429-432
ClearSession(s) ==
    [s EXCEPT !._cookies = EmptyDict, !.cookies = {},
              !.headers = INITIAL_HEADERS, !.logged_in = FALSE]

\* the try block without RequestException in its except clause
SignOutHandledWithoutTransport(err) == err \in {"AttributeError", "TypeError"}

\* logout, lines 419-427: the exceptions of the sign-out the try block handles;
\* GetiRequestException derives from Exception and the builtin ConnectionError
\* is no RequestException, so both leave logout
SignOutHandled(err) ==
    err \in {"SSLError", "RequestsConnectionError", "AttributeError", "TypeError"}

\* logout; closing the adapters (lines 433-440) changes no attribute of the
\* session
logout(c) ==
    LET requires_sign_out == ~(~c.self.logged_in \/ c.self.use_token) IN
    Then(IF requires_sign_out
         THEN {LET c1 == Request(c, "oauth2/sign_out", "GET", EmptyDict, NotAttached, so)
               IN  IF so.err = "none"
                   THEN IF so.status_code \in SUCCESS_STATUS_CODES THEN c1
                        ELSE Raise(c1, "GetiRequestException", so.status_code)
                   ELSE IF SignOutHandled(so.err) THEN c1
                   ELSE Raise(c1, so.err, 0) : so \in SignOutAnswers}
         ELSE {c},
         LAMBDA c2 : {[c2 EXCEPT !.self = ClearSession(@)]})

\* __exit__: the session logs out only while logged_in, and whatever logout
\* raises is logged and dropped; super().__exit__ closes the adapters
__exit__(c) ==
    IF c.self.logged_in
    THEN {IF Raised(c1) THEN [c1 EXCEPT !.exc = NoExc] ELSE c1 : c1 \in logout(c)}
    ELSE {c}

\* __del__
__del__(c) ==
    IF c.self.logged_in
    THEN {IF Raised(c1) THEN [c1 EXCEPT !.exc = NoExc] ELSE c1 : c1 \in logout(c)}
    ELSE {c}

----------------------------------------------------------------------------
(* Version and organization *)

ProductInfoRequest ==
    [url |-> "product_info", method |-> "GET", contenttype |-> "json",
     allow_reauthentication |-> TRUE, include_organization_id |-> FALSE,
     allow_text_response |-> FALSE]

NoProductInfo == [kind |-> "none", version |-> 0]

\* what get_rest_response("product_info") returned: the decoded document, or
\* the raw response
ProductInfo(ret) == [kind |-> ret.kind, version |-> ret.response.version]

----------------------------------------------------------------------------
(* The state machine *)

NoRequest ==
    [url |-> None, method |-> None, contenttype |-> "",
     allow_reauthentication |-> FALSE, include_organization_id |-> FALSE,
     allow_text_response |-> FALSE]

NoCall == [op |-> None, req |-> NoRequest, stage |-> "ready"]

\* no Job object is in the hands of the caller
NoJob ==
    [status_state |-> None, status_message |-> <<>>, state |-> None, steps |-> NoSteps,
     workspace_id |-> None, has_geti_version |-> FALSE, _geti_version |-> 0]

\* a job as a listing of jobs makes it: the state and the message of its
\* status (the message by the step marks "(Step c/t)" in it), its state and
\* steps (None before Geti 1.7), its workspace id, and its Geti version: the
\* attribute _geti_version exists once the setter of geti_version ran (0: None)
NewJob(workspace_id, has_geti_version, geti_version) ==
    [NoJob EXCEPT !.status_state = "RUNNING", !.workspace_id = workspace_id,
                  !.has_geti_version = has_geti_version,
                  !._geti_version = geti_version]
NoOutcome == [exc |-> NoExc, ret |-> NoRet]

Methods == {"GET", "POST", "PUT", "DELETE", "PATCH"}

\* the calls of get_rest_response the callers make: a GET with every
\* combination of the two flags, a POST with and without recovery, every
\* method without recovery, the content types of a body, a content type the
\* session does not know with every method that changes the server, and a path
\* that begins with the organization segment
Requests ==
    [url : {"projects"}, method : {"GET"}, contenttype : {"json"},
     allow_reauthentication : BOOLEAN, include_organization_id : {TRUE},
     allow_text_response : BOOLEAN]
    \cup
    [url : {"projects"}, method : {"POST"}, contenttype : {"json", "multipart", "xml"},
     allow_reauthentication : {TRUE}, include_organization_id : {TRUE},
     allow_text_response : {FALSE}]
    \cup
    [url : {"projects"}, method : Methods, contenttype : {"json"},
     allow_reauthentication : {FALSE}, include_organization_id : {TRUE},
     allow_text_response : {FALSE}]
    \cup
    [url : {"projects"}, method : {"PUT", "DELETE", "PATCH"}, contenttype : {"xml"},
     allow_reauthentication : {FALSE}, include_organization_id : {TRUE},
     allow_text_response : {FALSE}]
    \cup
    [url : {"organizations/org1/projects"}, method : {"GET"}, contenttype : {"json"},
     allow_reauthentication : {TRUE}, include_organization_id : {TRUE},
     allow_text_response : {FALSE}]

ConfigKinds == {"credential", "token"}

\* __init__, lines 60-88, for a configuration of kind k
NewSession(k) ==
    [logged_in |-> FALSE, use_token |-> FALSE, _auth_service |-> None,
     _cookies |-> [n \in {CSRF_COOKIE_NAME, PROXY_COOKIE_NAME} |-> None],
     cookies |-> {}, headers |-> DictUpdate(DEFAULT_HEADERS, INITIAL_HEADERS),
     config |-> [kind |-> k, api_version |-> "v1", token |-> "pat"],
     _product_info |-> NoProductInfo, _organization_id |-> None]

\* the context in which an operation starts
Ctx == [self |-> self, wire |-> <<>>, exc |-> NoExc, ret |-> NoRet,
        files |-> EmptyDict]

Init ==
    /\ self \in {NewSession(k) : k \in ConfigKinds}
    /\ phase = "new"
    /\ call = NoCall
    /\ wire = <<>>
    /\ outcome = NoOutcome
    /\ server = SessionServer
    /\ job = NoJob

\* a step of __init__ ends in context c and goes on with phase p, or raises
InitStep(c, p) ==
    /\ self' = c.self
    /\ phase' = IF Raised(c) THEN "failed" ELSE p
    /\ wire' = IF server.traced THEN c.wire ELSE <<>>
    /\ outcome' = [exc |-> c.exc, ret |-> NoRet]
    /\ UNCHANGED <<call, server, job>>

\* __init__, lines 94-103: the token configuration
InitToken(c) ==
    Then(Then(authentication_service([c EXCEPT !.self.use_token = TRUE]), LAMBDA c1 :
                 IF c1.self._auth_service = AUTHENTICATION_DEX_OLD
                 THEN Then(_acquire_access_token(c1), LAMBDA ct :
                          {[ct EXCEPT !.self.headers =
                                DictSet(@, "Authorization", "Bearer " \o ct.ret.val)]})
                 ELSE {[c1 EXCEPT !.self.headers =
                                      DictSet(@, "x-api-key", c1.self.config.token)]}),
         LAMBDA c2 :
             IF "Connection" \notin DOMAIN c2.self.headers
             THEN {Raise(c2, "KeyError", 0)}
             ELSE {[c2 EXCEPT !.self.headers = DictPop(@, "Connection")]})

\* __init__, lines 91-103
InitAuthentication ==
    /\ phase = "new"
    /\ \E c \in IF self.config.kind = "credential"
                THEN Then(authenticate(Ctx),
                          LAMBDA c1 : {[c1 EXCEPT !.self.use_token = FALSE]})
                ELSE InitToken(Ctx) :
           InitStep(c, "authenticated")

\* _get_product_info_and_set_api_version, lines 451-454 and 460; the second
\* request goes on the wire after the first one of the method
ProductInfoStep(fallback) ==
    \E c \in get_rest_response([Ctx EXCEPT !.wire = IF fallback THEN <<>> ELSE wire],
                               ProductInfoRequest) :
        IF c.exc.type = "GetiRequestException" /\ fallback
        THEN InitStep([c EXCEPT !.self.config.api_version = LEGACY_API_VERSION,
                                !.exc = NoExc], "fallback")
        ELSE IF Raised(c) THEN InitStep(c, "failed")
        ELSE InitStep([c EXCEPT !.self._product_info = ProductInfo(c.ret)], "versioned")

\* __init__, line 106: the first product_info request
InitProductInfo ==
    /\ phase = "authenticated"
    /\ ProductInfoStep(TRUE)

\* _get_product_info_and_set_api_version, lines 455-459: the request is made
\* again with the legacy API version
InitProductInfoLegacy ==
    /\ phase = "fallback"
    /\ ProductInfoStep(FALSE)

\* __init__, line 107
InitOrganizationId ==
    /\ phase = "versioned"
    /\ \E c \in _get_organization_id(Ctx) :
           InitStep(IF Raised(c) THEN c
                    ELSE [c EXCEPT !.self._organization_id = c.ret.val],
                    "constructed")

\* __init__ returns: the session is in the hands of the caller
InitReturn ==
    /\ phase = "constructed"
    /\ phase' = "live"
    /\ wire' = <<>>
    /\ outcome' = NoOutcome
    /\ UNCHANGED <<self, call, server, job>>

\* the caller invokes a public operation
Invoke ==
    /\ phase = "live"
    /\ call.stage = "ready"
    /\ \/ \E req \in Requests :
              call' = [op |-> "get_rest_response", req |-> req, stage |-> "pending"]
       \/ /\ self.config.kind = "credential"
          /\ call' = [op |-> "authenticate", req |-> NoRequest, stage |-> "pending"]
       \/ \E op \in {"logout", "__exit__", "__del__"} :
              call' = [op |-> op, req |-> NoRequest, stage |-> "pending"]
    /\ UNCHANGED <<self, phase, wire, outcome, server, job>>

\* the invoked operation ends in context c
Done(c) ==
    /\ self' = c.self
    /\ wire' = c.wire
    /\ outcome' = [exc |-> c.exc, ret |-> c.ret]
    /\ call' = [call EXCEPT !.stage = "done"]
    /\ UNCHANGED <<phase, server, job>>

Pending(op) == phase = "live" /\ call.stage = "pending" /\ call.op = op

Authenticate ==
    /\ Pending("authenticate")
    /\ \E c \in authenticate(Ctx) : Done(c)

GetRestResponse ==
    /\ Pending("get_rest_response")
    /\ \E c \in get_rest_response(Ctx, call.req) : Done(c)

Logout ==
    /\ Pending("logout")
    /\ \E c \in logout(Ctx) : Done(c)

\* the session leaves its with block
Exit ==
    /\ Pending("__exit__")
    /\ \E c \in __exit__(Ctx) : Done(c)

\* the session is deleted from memory
Del ==
    /\ Pending("__del__")
    /\ \E c \in __del__(Ctx) : Done(c)

\* the caller reads the property organization_id
Access ==
    /\ phase = "live"
    /\ call.stage = "ready"
    /\ call' = [op |-> "organization_id", req |-> NoRequest, stage |-> "pending"]
    /\ UNCHANGED <<self, phase, wire, outcome, server, job>>

OrganizationId ==
    /\ Pending("organization_id")
    /\ \E c \in organization_id(Ctx) : Done(c)

\* the caller has the result and is ready for the next call; a deleted
\* session is called no more
Resume ==
    /\ phase = "live"
    /\ call.stage = "done"
    /\ call.op # "__del__"
    /\ call' = NoCall
    /\ wire' = <<>>
    /\ outcome' = NoOutcome
    /\ UNCHANGED <<self, phase, server, job>>

Next ==
    \/ InitAuthentication
    \/ InitProductInfo
    \/ InitProductInfoLegacy
    \/ InitOrganizationId
    \/ InitReturn
    \/ Invoke
    \/ Authenticate
    \/ GetRestResponse
    \/ Logout
    \/ Exit
    \/ Del
    \/ Access
    \/ OrganizationId
    \/ Resume

Spec == Init /\ [][Next]_vars

----------------------------------------------------------------------------
(* Constructions against the server of SetupServer, and a first read of    *)
(* organization_id                                                         *)

SetupInit ==
    /\ self \in {NewSession(k) : k \in ConfigKinds}
    /\ phase = "new"
    /\ call = NoCall
    /\ wire = <<>>
    /\ outcome = NoOutcome
    /\ server = SetupServer
    /\ job = NoJob

SetupNext ==
    \/ InitAuthentication
    \/ InitProductInfo
    \/ InitProductInfoLegacy
    \/ InitOrganizationId
    \/ InitReturn
    \/ Access
    \/ OrganizationId
    \/ Resume

Setup == SetupInit /\ [][SetupNext]_vars

----------------------------------------------------------------------------
(* The callers of a session: a job is cancelled, a task is trained          *)

ClientsInit ==
    /\ self \in {NewSession(k) : k \in ConfigKinds}
    /\ phase = "new"
    /\ call = NoCall
    /\ wire = <<>>
    /\ outcome = NoOutcome
    /\ server = ClientServer
    /\ job \in {NewJob("workspace", TRUE, GETI_114_VERSION),
                 NewJob(None, TRUE, GETI_114_VERSION),
                 NewJob("workspace", TRUE, 0), NewJob("workspace", FALSE, 0)}

\* the caller invokes an operation of a Job or of a TrainingClient
InvokeClient ==
    /\ phase = "live"
    /\ call.stage = "ready"
    /\ \/ \E op \in {"cancel", "update"} :
              call' = [op |-> op, req |-> NoRequest, stage |-> "pending"]
       \/ \E b \in BOOLEAN :
              call' = [op |-> "train_task", req |-> NoRequest, stage |-> "pending",
                       await_running_jobs |-> b, jobs |-> <<>>]
    /\ UNCHANGED <<self, phase, wire, outcome, server, job>>

\* an operation of the job ends in context e.ctx with the job e.job
DoneJob(e) ==
    /\ self' = e.ctx.self
    /\ wire' = e.ctx.wire
    /\ outcome' = [exc |-> e.ctx.exc, ret |-> e.ctx.ret]
    /\ call' = [call EXCEPT !.stage = "done"]
    /\ job' = e.job
    /\ UNCHANGED <<phase, server>>

Cancel ==
    /\ Pending("cancel")
    /\ \E e \in cancel(Ctx, job) : DoneJob(e)

Update ==
    /\ Pending("update")
    /\ \E e \in update(Ctx, job) : DoneJob(e)

\* train_task enters monitor_jobs for the jobs c.ret.val, line 222
Await(c) ==
    /\ self' = c.self
    /\ wire' = c.wire
    /\ call' = [call EXCEPT !.stage = "monitoring", !.jobs = c.ret.val]
    /\ UNCHANGED <<phase, outcome, server, job>>

\* train_task from the submission of the training request on, lines 224-246
Submit(c) == \E c1 \in SubmitTraining([c EXCEPT !.ret = NoRet]) : Done(c1)

\* train_task up to the end of the call or to the call of monitor_jobs
TrainTask ==
    /\ Pending("train_task")
    /\ \E c \in task_training_jobs(Ctx) :
           IF Raised(c) THEN Done(c)
           ELSE IF ~JobsRunning(c.ret.val) THEN Submit(c)
           ELSE IF ~call.await_running_jobs THEN Done(Raise(c, "RuntimeError", 0))
           ELSE Await(c)

\* monitor_jobs ends and train_task goes on to its end
MonitorJobs ==
    /\ phase = "live"
    /\ call.stage = "monitoring"
    /\ \E m \in monitor_jobs([Ctx EXCEPT !.wire = wire], call.jobs) :
           IF Raised(m) THEN Done(m) ELSE Submit(m)

ClientsNext ==
    \/ InitAuthentication
    \/ InitProductInfo
    \/ InitProductInfoLegacy
    \/ InitOrganizationId
    \/ InitReturn
    \/ InvokeClient
    \/ Cancel
    \/ Update
    \/ TrainTask
    \/ MonitorJobs
    \/ Resume

Clients == ClientsInit /\ [][ClientsNext]_vars

----------------------------------------------------------------------------
(* The steps of a job *)

\* the longest list of steps of a job
MaxSteps == 3

\* the states a step reports, and the step marks "(Step c/t)" of a status
\* message, each by its two digits
StepStates == {"waiting", "running", "finished", "absent"}
StepMarks == {<<1, 3>>, <<3, 2>>}

\* the lists of at most n elements of S
ListsUpTo(S, n) == UNION {[1..k -> S] : k \in 0..n}

\* _get_step_information, line 352: step.get("state", "waiting")
StepState(step) == IF step = "absent" THEN "waiting" ELSE step

\* _get_step_information, lines 350-354: the steps that are finished
RECURSIVE steps_complete(_)
steps_complete(steps) ==
    IF steps = <<>> THEN 0
    ELSE (IF StepState(Head(steps)) = "finished" THEN 1 ELSE 0)
             + steps_complete(Tail(steps))

\* the steps of a job that has a list of steps
ListOfSteps(j) == CHOOSE steps \in j.steps : TRUE

\* _get_step_information, line 355
CurrentStep(steps) == steps_complete(steps) + 1

\* _get_step_information: the current step and the total number of steps
_get_step_information(j) ==
    IF j.steps # NoSteps /\ Len(ListOfSteps(j)) # 0
    THEN [current |-> CurrentStep(ListOfSteps(j)), total |-> Len(ListOfSteps(j))]
    ELSE IF Len(j.status_message) # 1 THEN [current |-> 1, total |-> 1]
    ELSE [current |-> j.status_message[1][1], total |-> j.status_message[1][2]]

total_steps(j) == _get_step_information(j).total

current_step(j) == _get_step_information(j).current

\* current_step_message: the text of the status message before its step marks
\* is "message", the name of a step is "step name"; its errors are those of
\* the geti_version property and of len(None)
current_step_message(j) ==
    IF ~j.has_geti_version THEN [raised |-> "AttributeError", message |-> ""]
    ELSE IF j._geti_version = 0 THEN [raised |-> "ValueError", message |-> ""]
    ELSE IF j._geti_version <= GETI_18_VERSION
    THEN [raised |-> "none", message |-> "message"]
    ELSE LET current_step_index == current_step(j) - 1 IN
         IF current_step_index < 0 THEN [raised |-> "none", message |-> ""]
         ELSE IF j.steps = NoSteps THEN [raised |-> "TypeError", message |-> ""]
         ELSE IF current_step_index >= Len(ListOfSteps(j))
         THEN [raised |-> "none", message |-> ""]
         ELSE [raised |-> "none", message |-> "step name"]

\* the jobs whose steps are read
StepsInit ==
    /\ self = NewSession("token")
    /\ phase = "new"
    /\ call = NoCall
    /\ wire = <<>>
    /\ outcome = NoOutcome
    /\ server = ClientServer
    /\ \E steps \in {NoSteps} \cup {StepList(l) : l \in ListsUpTo(StepStates, MaxSteps)},
          status_message \in ListsUpTo(StepMarks, 2),
          has_geti_version \in BOOLEAN,
          geti_version \in {0, GETI_18_VERSION, GETI_114_VERSION} :
           /\ has_geti_version \/ geti_version = 0
           /\ job = [NewJob("workspace", has_geti_version, geti_version)
                        EXCEPT !.steps = steps, !.status_message = status_message]

\* the caller reads current_step and total_steps of the job
ReadSteps ==
    /\ call.stage = "ready"
    /\ call' = [op |-> "_get_step_information", req |-> NoRequest, stage |-> "done",
                current_step |-> current_step(job), total_steps |-> total_steps(job)]
    /\ UNCHANGED <<self, phase, wire, outcome, server, job>>

\* the caller reads current_step_message of the job
ReadStepMessage ==
    /\ call.stage = "ready"
    /\ call' = [op |-> "current_step_message", req |-> NoRequest, stage |-> "done",
                result |-> current_step_message(job)]
    /\ UNCHANGED <<self, phase, wire, outcome, server, job>>

StepsNext ==
    \/ ReadSteps
    \/ ReadStepMessage

Steps == StepsInit /\ [][StepsNext]_vars

----------------------------------------------------------------------------
(* What a caller observes of a finished operation *)

Finished(op) == phase = "live" /\ call.stage = "done" /\ call.op = op

Returned == outcome.exc.type = "none"

RaisedRequestException == outcome.exc.type = "GetiRequestException"

\* the positions in wire of the dispatches of the caller's own request
Dispatches == {i \in 1..Len(wire) : wire[i].url = call.req.url}

\* the caller's request was answered by a response with this status
FirstStatus(status) ==
    /\ Len(wire) > 0
    /\ wire[1].response.err = "none"
    /\ wire[1].response.status_code = status

\* the positions in wire where a re-authentication starts: the first request
\* of a login handshake, or the first request of a token exchange
LoginUrls == {"host", "dex/auth/regular_users"}

Reauthentications ==
    {i \in 1..Len(wire) :
        \/ wire[i].url \in LoginUrls
        \/ /\ wire[i].url = AccessTokenRequest.url
           /\ i > 1
           /\ wire[i - 1].url # AccessTokenRequest.url}

\* the session credentials: the cookie map, the jar, and the token headers
Credentials(s) ==
    [map |-> s._cookies, jar |-> s.cookies,
     authorization |-> DictGet(s.headers, "Authorization", None),
     key |-> DictGet(s.headers, "x-api-key", None)]

\* a failure by the criterion of section 4.6: a status outside the success
\* codes, or HTML the caller did not permit
IsFailure(r, allow_text_response) ==
    \/ r.status_code \notin {200, 201, 202}
    \/ r.content_type = "text/html" /\ ~allow_text_response

----------------------------------------------------------------------------
(* Claims *)

\* C1: every request get_rest_response dispatches for a caller's call, the
\* first attempt and the retry of the error recovery alike, carries the header
\* x-geti-csrf-protection exactly when its method is POST, PUT, DELETE or PATCH.
C1_CsrfHeaderOnEveryDispatch ==
    Finished("get_rest_response") =>
        \A i \in Dispatches :
            (CSRF_HEADER \in DOMAIN wire[i].headers)
                <=> (wire[i].method \in {"POST", "PUT", "DELETE", "PATCH"})

\* C2: when the first dispatch gets a 401 and recovery is permitted, there is
\* at most one re-authentication and at most one re-sent request; a re-sent
\* request that gets 401 too ends the call with GetiRequestException, and
\* nothing is sent after it.
C2_ReauthenticateOnceRetryOnce ==
    (Finished("get_rest_response") /\ FirstStatus(401)
         /\ call.req.allow_reauthentication) =>
        /\ Cardinality(Reauthentications) <= 1
        /\ Cardinality(Dispatches) <= 2
        /\ \A i \in Dispatches \ {1} :
               (wire[i].response.err = "none" /\ wire[i].response.status_code = 401) =>
                   /\ RaisedRequestException
                   /\ outcome.exc.status_code = 401
                   /\ i = Len(wire)

C2_Witness ==
    /\ Finished("get_rest_response") /\ FirstStatus(401)
    /\ call.req.allow_reauthentication
    /\ Cardinality(Reauthentications) = 1
    /\ Cardinality(Dispatches) = 2
    /\ wire[Len(wire)].url = call.req.url
    /\ wire[Len(wire)].response.status_code = 401
    /\ RaisedRequestException

\* C3: when the first dispatch gets a 503 and the second a 200, the call
\* returns the second response's result; nothing was sent between the two
\* dispatches, and the credentials and logged_in are what they were before.
C3_UnavailableThenOk ==
    [][(Pending("get_rest_response")
          /\ Len(wire') >= 2
          /\ wire'[1].response.err = "none" /\ wire'[1].response.status_code = 503
          /\ wire'[Len(wire')].url = call.req.url
          /\ wire'[Len(wire')].response.err = "none"
          /\ wire'[Len(wire')].response.status_code = 200) =>
           /\ Len(wire') = 2
           /\ outcome'.exc.type = "none"
           /\ outcome'.ret.response = wire'[2].response
           /\ Credentials(self') = Credentials(self)
           /\ self'.logged_in = self.logged_in]_vars

C3_Witness ==
    /\ Finished("get_rest_response") /\ FirstStatus(503)
    /\ Len(wire) = 2
    /\ wire[2].response.err = "none" /\ wire[2].response.status_code = 200
    /\ Returned
    /\ outcome.ret.response = wire[2].response

\* C4: a response to the retried request that is itself a failure (a status
\* outside {200, 201, 202}, or text/html while allow_text_response is false)
\* makes get_rest_response raise GetiRequestException; it is never returned.
C4_FailedRetryRaises ==
    (Finished("get_rest_response") /\ Cardinality(Dispatches) = 2) =>
        \A i \in Dispatches \ {1} :
            (wire[i].response.err = "none"
                 /\ IsFailure(wire[i].response, call.req.allow_text_response)) =>
                RaisedRequestException

C6_NoFailureStatusReturned ==
    (Finished("get_rest_response") /\ Returned) =>
        outcome.ret.response.status_code \in {200, 201, 202}

\* C7: in every state a caller observes on a credential session, logged_in is
\* true exactly when the cookie map holds a session credential that is not
\* None (_oauth2_proxy of the legacy login, geti-cookie of the modern login).
HoldsSessionCredential ==
    \/ DictGet(self._cookies, PROXY_COOKIE_NAME, None) # None
    \/ DictGet(self._cookies, GETI_COOKIE_NAME, None) # None

C7_LoggedInIffCredentialHeld ==
    (self.config.kind = "credential" /\ phase = "live") =>
        (self.logged_in <=> HoldsSessionCredential)

\* C8: authenticate on a session whose logged_in is true sends no request and
\* leaves the cookie map, the cookie jar, the headers and logged_in as they are.
C8_AuthenticateWhenLoggedIn ==
    [][(Pending("authenticate") /\ self.logged_in) =>
           /\ wire' = <<>>
           /\ outcome'.exc.type = "none"
           /\ self'._cookies = self._cookies
           /\ self'.cookies = self.cookies
           /\ self'.headers = self.headers
           /\ self'.logged_in]_vars

C8_Witness ==
    /\ Finished("authenticate")
    /\ self.logged_in
    /\ wire = <<>>
    /\ Returned

\* C9: in the legacy login, a credential POST whose redirect history holds no
\* _oauth2_proxy cookie makes authenticate raise, and the session is not
\* marked logged in.
C9_LegacyLoginWithoutProxyCookieFails ==
    Finished("authenticate") =>
        \A i \in 1..Len(wire) :
            (self._auth_service = AUTHENTICATION_DEX_OLD
                 /\ wire[i].url = "login_page" /\ wire[i].method = "POST"
                 /\ wire[i].response.err = "none"
                 /\ wire[i].response.proxy = None) =>
                ~Returned /\ ~self.logged_in

\* C11: after __exit__ or __del__, on a credential or a token session and
\* whatever logged_in was, the cookie map is empty and the headers hold
\* neither an Authorization bearer token nor an x-api-key.
C11_NoCredentialAfterDisposal ==
    (Finished("__exit__") \/ Finished("__del__")) =>
        /\ self._cookies = EmptyDict
        /\ "Authorization" \notin DOMAIN self.headers
        /\ "x-api-key" \notin DOMAIN self.headers

\* C12: when a multipart request is made again by the error recovery, the
\* retry goes out with every file buffer of the payload at offset 0, although
\* the first attempt read the buffers to their end: the rewind comes after
\* the failed first response and before the retry.
C12_RetryRewindsFileBuffers ==
    (Finished("get_rest_response") /\ HasFiles(call.req)) =>
        \A i \in Dispatches :
            /\ DOMAIN wire[i].files = DOMAIN FileSizes
            /\ \A f \in DOMAIN FileSizes : wire[i].files[f] = 0
            /\ i > 1 => IsFailure(wire[1].response, call.req.allow_text_response)
                            \/ wire[1].response.err # "none"

\* a multipart POST failed with 503, was made again and succeeded
C12_Witness ==
    /\ Finished("get_rest_response") /\ HasFiles(call.req)
    /\ Len(wire) = 2 /\ Dispatches = {1, 2}
    /\ wire[1].response.status_code = 503
    /\ wire[2].files = [f \in DOMAIN FileSizes |-> 0]
    /\ Returned

\* the legacy login redirect chain on the wire: the request of the login page
\* and the redirects followed from it
Chain == {i \in 1..Len(wire) : wire[i].url \in {"host", "redirect_url"}}

ChainHops == {i \in Chain : wire[i].url = "redirect_url"}

ChainCarrying == {i \in Chain : wire[i].response.csrf # None}

\* C13: in the legacy login every hop of the redirect chain takes the CSRF
\* cookie from the redirected response if it carries one and else from the
\* response that issued the redirect, so the value held when the chain ends
\* is the cookie of the last response of the chain that carried one; in a
\* chain of 2 hops where only the first hop carries a cookie it is that one.
C13_LastCsrfCookieOfChainHeld ==
    ChainHops # {} =>
        /\ ChainCarrying # {} =>
               \E i \in ChainCarrying :
                   /\ \A j \in ChainCarrying : j <= i
                   /\ self._cookies[CSRF_COOKIE_NAME] = wire[i].response.csrf
        /\ ChainCarrying = {} => self._cookies[CSRF_COOKIE_NAME] = None
        /\ \A i \in ChainHops :
               (Cardinality(ChainHops) = 1 /\ wire[i].response.csrf = None) =>
                   self._cookies[CSRF_COOKIE_NAME] = wire[i - 1].response.csrf

\* a chain of 2 hops where only the first hop carries the cookie
C13_Witness ==
    /\ Cardinality(ChainHops) = 2
    /\ \E i \in ChainHops :
           /\ ChainCarrying = {i}
           /\ i + 1 \in ChainHops
           /\ self._cookies[CSRF_COOKIE_NAME] = wire[i].response.csrf

\* the version the server reported is known and below 1.14
BelowOrganizationThreshold ==
    /\ self._product_info.kind = "json"
    /\ self._product_info.version < GETI_114_VERSION

ProfileRequests == {i \in 1..Len(wire) : wire[i].url = ProfileRequest.url}

\* C14: for a version below 1.14 the organization id is the constant
\* 000000000000000000000001 and no request to the profile endpoint is ever
\* sent, neither by the constructor nor by a later read of organization_id.
C14_DefaultOrganizationBelowThreshold ==
    BelowOrganizationThreshold =>
        /\ ProfileRequests = {}
        /\ phase \in {"constructed", "live"} =>
               self._organization_id = "000000000000000000000001"
        /\ Finished("organization_id") =>
               Returned /\ outcome.ret.val = "000000000000000000000001"

\* the constructor resolved the id of a version 1.13 server, and the caller
\* has read the property
C14_Witness ==
    /\ BelowOrganizationThreshold
    /\ self._product_info.version = 13
    /\ Finished("organization_id")
    /\ outcome.ret.val = default_org_id

\* the last response on the wire is a profile document without organizationId
ProfileWithoutOrganization ==
    /\ wire # <<>>
    /\ wire[Len(wire)].url = ProfileRequest.url
    /\ IsDocument(wire[Len(wire)].response)
    /\ wire[Len(wire)].response.val = None

\* C15: for a version at or above 1.14, a profile response without an
\* organizationId makes the resolution fail with a ValueError, and no
\* constructed session has an unset organization id to build a URL with.
C15_MissingOrganizationIsAnError ==
    /\ ProfileWithoutOrganization =>
           /\ phase = "failed"
           /\ outcome.exc.type = "ValueError"
           /\ self._organization_id = None
           /\ self._product_info.version >= GETI_114_VERSION
    /\ phase \in {"constructed", "live"} => self._organization_id # None
    /\ Finished("organization_id") => Returned /\ outcome.ret.val # None

\* the profile of a version 1.15 server has no organizationId: construction
\* fails
C15_Witness ==
    /\ ProfileWithoutOrganization
    /\ self._product_info.version = 15
    /\ phase = "failed"
    /\ outcome.exc.type = "ValueError"

\* C16: once the organization id is resolved, no operation of the session
\* (a request, its retry, a re-authentication, a logout and the requests after
\* it, a read of the property) sends a profile request, and the id stays what
\* it is; a profile request is sent only while the cached id is unset.
C16_ResolvedOrganizationNeverFetchedAgain ==
    [][self._organization_id # None =>
           /\ self'._organization_id = self._organization_id
           /\ \A i \in 1..Len(wire') : wire'[i].url # ProfileRequest.url]_vars

\* a request on a session whose id came from the profile went through a
\* re-authentication and a retry
C16_Witness ==
    /\ Finished("get_rest_response")
    /\ self._organization_id \in OrganizationIds
    /\ call.req.include_organization_id
    /\ Reauthentications # {}
    /\ Cardinality(Dispatches) = 2

\* the requests for the deployment descriptor on the wire
DescriptorFetches ==
    {i \in 1..Len(wire) : wire[i].url = "deployment-config.json"}

\* C17: the authentication backend is determined by the deployment
\* descriptor: an unparsable document gives the legacy login, a parsable one
\* that declares the auth type "dex" the modern login, a parsable one that
\* declares another type the token service, and the backend is never anything
\* but one of these three.
C17_BackendFollowsDescriptor ==
    /\ self._auth_service \in {None, "dex-old", "dex-new", "cidaas"}
    /\ \A i \in DescriptorFetches :
           /\ self._auth_service # None
           /\ wire[i].response.val = "unparsable" => self._auth_service = "dex-old"
           /\ wire[i].response.val = "dex" => self._auth_service = "dex-new"
           /\ wire[i].response.val = "other" => self._auth_service = "cidaas"

\* the descriptor declares a type other than dex
C17_Witness ==
    /\ DescriptorFetches # {}
    /\ wire[1].response.val = "other"
    /\ self._auth_service = AUTHENTICATION_CIDAAS

\* C18: once the backend kind is resolved, no operation of the session
\* (authenticate, the re-authentication of the error recovery, logout, a new
\* login) fetches the deployment descriptor again or changes the kind.
C18_DescriptorFetchedOnce ==
    [][self._auth_service # None =>
           /\ self'._auth_service = self._auth_service
           /\ \A i \in 1..Len(wire') : wire'[i].url # "deployment-config.json"]_vars

\* a logged-out session has logged in again
C18_Witness ==
    /\ Finished("authenticate")
    /\ Returned
    /\ LoginUrls \cap {wire[i].url : i \in 1..Len(wire)} # {}
    /\ self.logged_in
    /\ DescriptorFetches = {}

\* the credential submissions of the modern login in a wire: the POST that
\* follows the request of the authorization endpoint
ModernSubmissions(w) ==
    {i \in 2..Len(w) : /\ w[i].method = "POST"
                        /\ w[i - 1].url = "dex/auth/regular_users"}

\* C19: in the modern login a 401 answer to the credential submission ends
\* authenticate with the credential failure (ValueError) and any other answer
\* that is not 200 ends it with a GetiRequestException made from the body and
\* the reason of the response; either way no request goes to dex/token, the
\* geti-cookie is not stored and logged_in stays false.
C19_ModernLoginFailure ==
    [][\A i \in ModernSubmissions(wire') :
           (call.stage = "pending" /\ wire'[i].response.err = "none"
                /\ wire'[i].response.status_code # 200) =>
               /\ i = Len(wire')
               /\ IF wire'[i].response.status_code = 401
                  THEN outcome'.exc.type = "ValueError"
                  ELSE /\ outcome'.exc.type = "GetiRequestException"
                       /\ outcome'.exc.status_code = wire'[i].response.status_code
                       /\ outcome'.exc.response_data = "content, reason"
               /\ \A j \in 1..Len(wire') : wire'[j].url # "dex/token"
               /\ DictGet(self'._cookies, GETI_COOKIE_NAME, None)
                      = DictGet(self._cookies, GETI_COOKIE_NAME, None)
               /\ ~self'.logged_in]_vars

\* authenticate on a logged-out session of a modern server: the credentials
\* are answered 500
C19_Witness ==
    /\ Finished("authenticate")
    /\ ModernSubmissions(wire) # {}
    /\ wire[Len(wire)].response.status_code = 500
    /\ outcome.exc.type = "GetiRequestException"
    /\ ~self.logged_in

\* the requests of the personal-token exchange on the wire
Exchanges == {i \in 1..Len(wire) : wire[i].url = AccessTokenRequest.url}

\* the last request on the wire is an exchange, and its answer has a failure
\* status, or is the HTML that answers the first attempt of the exchange
ExchangeFailed ==
    /\ Len(wire) \in Exchanges
    /\ \/ wire[Len(wire)].response.status_code \notin SUCCESS_STATUS_CODES
       \/ /\ wire[Len(wire)].response.content_type = "text/html"
          /\ Len(wire) - 1 \notin Exchanges

\* C20: a 401 answer to the personal-token exchange is reported as the
\* credential error of an invalid personal token (ValueError); a failure of
\* the exchange with another status reaches the caller as the
\* GetiRequestException that get_rest_response raised for it; and the failed
\* exchange is not attempted again through a re-authentication.
C20_TokenExchangeFailure ==
    (Finished("get_rest_response") /\ ExchangeFailed) =>
        LET answer == wire[Len(wire)].response IN
        /\ IF answer.status_code = 401
           THEN outcome.exc = [NoExc EXCEPT !.type = "ValueError"]
           ELSE outcome.exc =
                    [type |-> "GetiRequestException",
                     status_code |-> answer.status_code,
                     response_data |-> IF answer.content_type = "application/json"
                                       THEN "body" ELSE None,
                     method |-> AccessTokenRequest.method,
                     url |-> wire[Len(wire)].requesturl]
        /\ Cardinality(Reauthentications) = 1
        /\ \A i \in 1..Len(wire) : wire[i].url \notin LoginUrls
        /\ \A i \in Exchanges :
               i < Len(wire) => /\ Cardinality(Exchanges) = 2
                                /\ wire[i].response.status_code = 503
        /\ Cardinality(Dispatches) = 1

\* a request of a token session got 401, and so did the exchange
C20_Witness ==
    /\ Finished("get_rest_response")
    /\ ExchangeFailed
    /\ FirstStatus(401)
    /\ wire[Len(wire)].response.status_code = 401
    /\ outcome.exc.type = "ValueError"

\* a failed exchange with a status other than 401
C20_WitnessOther ==
    /\ Finished("get_rest_response")
    /\ ExchangeFailed
    /\ wire[Len(wire)].response.status_code = 500
    /\ outcome.exc.type = "GetiRequestException"

\* C10: logout on a logged-in credential session whose sign-out request raises
\* a transport error of requests returns without raising, with logged_in
\* false, an empty cookie map, an empty jar and the initial headers.
C10_LogoutSurvivesTransportError ==
    (Finished("logout") /\ Len(wire) = 1
         /\ wire[1].url = "oauth2/sign_out"
         /\ wire[1].response.err \in {"SSLError", "RequestsConnectionError"}) =>
        /\ Returned
        /\ ~self.logged_in
        /\ self._cookies = EmptyDict
        /\ self.cookies = {}
        /\ self.headers = INITIAL_HEADERS

C10_Witness ==
    /\ Finished("logout") /\ Len(wire) = 1
    /\ wire[1].url = "oauth2/sign_out"
    /\ wire[1].response.err = "RequestsConnectionError"
    /\ Returned
    /\ self.headers = INITIAL_HEADERS

\* the credential submissions of the legacy login in a wire: the POST that
\* follows the login page or the last redirect
LegacySubmissions(w) ==
    {i \in 2..Len(w) : /\ w[i].method = "POST"
                        /\ w[i - 1].url \in {"host", "redirect_url"}}

\* the re-authentication of the recovery failed: the credentials were refused
\* (401 in the modern login, no redirect after the legacy submission), the
\* legacy login ended without the _oauth2_proxy cookie, or the token exchange
\* was answered 401
ReauthenticationFailed ==
    \/ \E i \in ModernSubmissions(wire) : wire[i].response.status_code = 401
    \/ \E i \in LegacySubmissions(wire) :
           /\ wire[i].response.err = "none"
           /\ ~wire[i].response.history \/ wire[i].response.proxy = None
    \/ \E i \in Exchanges :
           /\ wire[i].response.status_code = 401
           /\ \A j \in Exchanges : j <= i

\* C21: when the re-authentication inside the recovery fails (refused
\* credentials, no redirect cookie, 401 from the token exchange), the request
\* of the caller is not sent again, the caller of get_rest_response gets the
\* authentication failure, and the session is left with logged_in false.
C21_FailedReauthenticationIsTerminal ==
    (Finished("get_rest_response") /\ ReauthenticationFailed) =>
        /\ Cardinality(Dispatches) = 1
        /\ outcome.exc.type = "ValueError"
        /\ ~self.logged_in

\* C22: for every method that changes the server (POST, PUT, DELETE, PATCH),
\* get_rest_response called with a content type outside json, multipart,
\* jpeg and zip fails with an error before any request of the call is sent.
C22_UnsupportedContentFailsBeforeDispatch ==
    (/\ Finished("get_rest_response")
     /\ call.req.method \in {"POST", "PUT", "DELETE", "PATCH"}
     /\ call.req.contenttype \notin {"json", "multipart", "jpeg", "zip"}) =>
        /\ ~Returned
        /\ wire = <<>>

\* the first dispatch of the caller's request met an aborted connection
FirstDispatchAborted ==
    /\ wire # <<>>
    /\ wire[1].url = call.req.url
    /\ wire[1].response.err = "ConnectionAborted"

\* C23: an aborted connection while the request is dispatched is handled like
\* a 401 response: with recovery permitted the session re-authenticates once
\* and sends the request again once; with recovery disallowed the caller gets
\* a GetiRequestException with status 401; the connection error itself never
\* reaches the caller of get_rest_response.
C23_AbortedConnectionIsUnauthorized ==
    (Finished("get_rest_response") /\ FirstDispatchAborted) =>
        /\ outcome.exc.type # "ConnectionAborted"
        /\ IF call.req.allow_reauthentication
           THEN /\ Cardinality(Reauthentications) = 1
                /\ Cardinality(Dispatches) <= 2
           ELSE /\ Cardinality(Dispatches) = 1
                /\ outcome.exc.type = "GetiRequestException"
                /\ outcome.exc.status_code = 401

\* the product-info requests on the wire of the version resolution, and those
\* sent with the API version v of the configuration
ProductInfoDispatches == {i \in 1..Len(wire) : wire[i].url = ProductInfoRequest.url}
ProductInfoDispatchesOf(v) == {i \in ProductInfoDispatches : wire[i].requesturl[3] = v}

\* C24: the version resolution of a construction dispatches the product-info
\* request at most twice in total: once with the configured API path and, only
\* if that request fails with a request failure, exactly once more with the
\* legacy path; when the second one fails the failure leaves the constructor
\* and no further product-info request is sent.
C24_ProductInfoAtMostTwice ==
    /\ Cardinality(ProductInfoDispatches) <= 2
    /\ Cardinality(ProductInfoDispatchesOf("v1")) <= 1
    /\ Cardinality(ProductInfoDispatchesOf(LEGACY_API_VERSION)) <= 1
    /\ \A i \in ProductInfoDispatchesOf("v1"), j \in ProductInfoDispatchesOf(LEGACY_API_VERSION) :
           i < j /\ IsFailure(wire[i].response, FALSE)

\* the first and the last dispatch of the caller's request
FirstDispatch == wire[CHOOSE i \in Dispatches : \A j \in Dispatches : i <= j]
LastDispatch == wire[CHOOSE i \in Dispatches : \A j \in Dispatches : j <= i]

\* the exception was raised for the caller's own request, not for a request
\* of a re-authentication made on the way
TerminalRequestException ==
    /\ Finished("get_rest_response")
    /\ RaisedRequestException
    /\ Dispatches # {}
    /\ wire[Len(wire)].url = call.req.url

\* C25: a GetiRequestException that ends get_rest_response carries the method
\* and the URL of the original request and the status code of the last response
\* to it, the response to the re-sent request when the request was sent again;
\* when the body of that response is no JSON the exception is raised all the
\* same, without response data, and no error of the decoding takes its place.
C25_TerminalExceptionDescribesRequest ==
    /\ TerminalRequestException =>
           /\ outcome.exc.method = call.req.method
           /\ \A i \in Dispatches : wire[i].requesturl = outcome.exc.url
           /\ outcome.exc.status_code = LastDispatch.response.status_code
           /\ LastDispatch.response.content_type # "application/json" =>
                  outcome.exc.response_data = None
    /\ (/\ Finished("get_rest_response")
        /\ Dispatches # {}
        /\ wire[Len(wire)].url = call.req.url
        /\ LastDispatch.response.err = "none"
        /\ NeedsErrorHandling(FirstDispatch.response, call.req.allow_text_response)
        /\ LastDispatch.response.status_code \notin SUCCESS_STATUS_CODES
        /\ LastDispatch.response.content_type # "application/json") =>
           /\ RaisedRequestException
           /\ outcome.exc.response_data = None

\* a request sent again whose second response is no JSON ends in the exception
C25_Witness ==
    /\ TerminalRequestException
    /\ Cardinality(Dispatches) = 2
    /\ wire[1].response.status_code = 503
    /\ LastDispatch.response.status_code = 500
    /\ LastDispatch.response.content_type = "text/html"
    /\ outcome.exc.status_code = 500
    /\ outcome.exc.response_data = None

\* the step is a get_rest_response in which the personal token was exchanged
\* for a new bearer token
TokenRefreshStep ==
    /\ Pending("get_rest_response")
    /\ call'.stage = "done"
    /\ \E i \in 1..Len(wire') :
           /\ wire'[i].url = AccessTokenRequest.url
           /\ IsDocument(wire'[i].response)
           /\ wire'[i].response.val # None
           /\ DictGet(self'.headers, "Authorization", None) =
                  "Bearer " \o wire'[i].response.val

\* the headers the call leaves for its own request: the content type of the
\* request, and the CSRF-protection header of its method
OwnHeaders(s, req) ==
    SetCsrfHeader(_update_headers_for_content_type(s.headers, req.contenttype),
                  req.method)

\* C26: a token refresh changes only the Authorization header of the session,
\* which it sets to the new bearer token; the cookie map, the cookie jar and
\* logged_in are the same before and after the refresh.
C26_TokenRefreshChangesAuthorizationOnly ==
    [][TokenRefreshStep =>
           /\ \A h \in (DOMAIN self'.headers \cup DOMAIN OwnHeaders(self, call.req))
                           \ {"Authorization"} :
                  DictGet(self'.headers, h, None) =
                      DictGet(OwnHeaders(self, call.req), h, None)
           /\ self'._cookies = self._cookies
           /\ self'.cookies = self.cookies
           /\ self'.logged_in = self.logged_in]_vars

\* the DELETE requests on a wire, and the last of them
Deletes(w) == {i \in 1..Len(w) : w[i].method = "DELETE"}
LastDelete(w) == w[CHOOSE i \in Deletes(w) : \A j \in Deletes(w) : j <= i]

\* C27: Job.cancel sends one DELETE for the job; when it succeeds the state of
\* the job's status becomes CANCELLED; when it fails with status 404 the state
\* becomes INACTIVE and nothing is raised; when it fails with another status
\* the error is raised and the state is unchanged. A 404 answer never leaves
\* the job CANCELLED.
C27_CancelFollowsAnswer ==
    [][(Pending("cancel") /\ call'.stage = "done" /\ job.workspace_id # None) =>
           /\ Cardinality(Deletes(wire')) = 1
           /\ wire'[1].url = relative_url(job)
           /\ LET r == LastDelete(wire').response IN
              IF r.err = "none" /\ r.status_code \in SUCCESS_STATUS_CODES
              THEN outcome'.exc.type = "none" /\ job'.status_state = "CANCELLED"
              ELSE IF r.err = "none" /\ r.status_code = 404
              THEN outcome'.exc.type = "none" /\ job'.status_state = "INACTIVE"
              ELSE outcome'.exc.type # "none" /\ job' = job]_vars

\* the job listing the server gave last names a running training job of the
\* task
RunningTrainingJobListed ==
    LET listings == {i \in 1..Len(wire) : wire[i].url = JobsRequest.url} IN
    /\ listings # {}
    /\ LET r == wire[CHOOSE i \in listings : \A j \in listings : j <= i].response IN
       /\ IsDocument(r)
       /\ r.val # None
       /\ \E k \in 1..Len(JobLists[r.val]) :
              JobLists[r.val][k] = Training("task", "project")

\* C28: train_task called with await_running_jobs false while a training job
\* of the task is running raises RuntimeError and sends no POST to the train
\* endpoint of the project.
C28_RunningJobBlocksTraining ==
    (/\ Finished("train_task")
     /\ ~call.await_running_jobs
     /\ RunningTrainingJobListed) =>
        /\ outcome.exc.type = "RuntimeError"
        /\ \A i \in 1..Len(wire) : wire[i].url # TrainRequest.url

\* the listing named one running training job among other jobs, and the call
\* ended in the RuntimeError with the listing as its only request
C28_Witness ==
    /\ Finished("train_task")
    /\ ~call.await_running_jobs
    /\ RunningTrainingJobListed
    /\ Len(wire) = 1
    /\ wire[1].response.val = "several"
    /\ outcome.exc.type = "RuntimeError"

OrganizationSegments(url, id) ==
    Cardinality({k \in 1..(Len(url) - 1) : url[k] = "organizations" /\ url[k + 1] = id})
AnyOrganizationSegments(url) ==
    Cardinality({k \in 1..Len(url) : url[k] = "organizations"})

\* C30: for a platform version above 1.8 and a request sent with
\* include_organization_id, the URL the request is dispatched to holds the path
\* segment organizations/<organization id>/ exactly once, whether or not the
\* relative path of the caller begins with that segment; for a version of 1.8
\* or below and a relative path without the segment, the URL holds no
\* organization segment.
C30_OrganizationSegmentOnce ==
    (Finished("get_rest_response") /\ call.req.include_organization_id) =>
        \A i \in Dispatches :
            IF self._product_info.version > GETI_18_VERSION
            THEN OrganizationSegments(wire[i].requesturl, self._organization_id) = 1
            ELSE AnyOrganizationSegments(Segments(call.req.url)) = 0 =>
                     AnyOrganizationSegments(wire[i].requesturl) = 0

\* above the threshold, a relative path that begins with the segment was
\* dispatched to the URL of the configuration followed by that path
C30_Witness ==
    /\ Finished("get_rest_response")
    /\ self._product_info.version > GETI_18_VERSION
    /\ call.req.url = "organizations/org1/projects"
    /\ Dispatches # {}
    /\ FirstDispatch.requesturl =
           <<"host", "api", self.config.api_version, "organizations", "org1", "projects">>

\* at the threshold, a relative path without the segment was dispatched to a
\* URL without it
C30_WitnessBelow ==
    /\ Finished("get_rest_response")
    /\ self._product_info.version = GETI_18_VERSION
    /\ call.req.url = "projects"
    /\ Dispatches # {}
    /\ FirstDispatch.requesturl = <<"host", "api", self.config.api_version, "projects">>

\* the positions in wire of the requests get_rest_response dispatched: the
\* caller's request and the exchanges of the personal token
RestDispatches == Dispatches \cup Exchanges

\* C31: the kind of credential of a session never changes after construction:
\* a credential-based session has no Authorization header and attaches its
\* cookie map to every request it dispatches, a token-based session attaches
\* the cookie map to none, and the recovery path refreshes the credential of
\* the session's own kind (a login for credentials, an exchange for a token).
C31_CredentialKindIsFixed ==
    phase = "live" =>
        /\ self.use_token <=> self.config.kind = "token"
        /\ IF self.config.kind = "credential"
           THEN /\ "Authorization" \notin DOMAIN self.headers
                /\ \A i \in RestDispatches : wire[i].cookies # NotAttached
                /\ Exchanges = {}
           ELSE /\ \A i \in RestDispatches : wire[i].cookies = NotAttached
                /\ \A i \in 1..Len(wire) : wire[i].url \notin LoginUrls

\* a credential-based session recovered by a login and sent its request again
\* with the cookie map
C31_Witness ==
    /\ Finished("get_rest_response")
    /\ self.config.kind = "credential"
    /\ Cardinality(Dispatches) = 2
    /\ \E i \in 1..Len(wire) : wire[i].url \in LoginUrls
    /\ \A i \in Dispatches : wire[i].cookies # NotAttached

\* a token-based session recovered by an exchange and sent its request again
\* without cookies
C31_WitnessToken ==
    /\ Finished("get_rest_response")
    /\ self.config.kind = "token"
    /\ Cardinality(Dispatches) = 2
    /\ Exchanges # {}
    /\ \A i \in Dispatches : wire[i].cookies = NotAttached

\* C32: no operation of a session modifies the server configuration object:
\* its host, API version, credentials, proxy and certificate settings are after
\* every step what they were when the session was constructed.
C32_ConfigurationNeverModified ==
    [][self'.config = self.config]_vars

LastAnswer(w) == w[Len(w)].response

\* C34: Job.update: when the status request fails with 403 the job is returned
\* with status, state and steps unchanged; when it fails with any other status
\* code that GetiRequestException is raised to the caller, neither swallowed
\* nor replaced by another error.
C34_UpdateFailureReachesCaller ==
    [][(/\ Pending("update") /\ call'.stage = "done" /\ job.workspace_id # None
        /\ LastAnswer(wire').err = "none"
        /\ LastAnswer(wire').status_code \notin SUCCESS_STATUS_CODES) =>
           IF LastAnswer(wire').status_code = 403
           THEN outcome'.exc.type = "none" /\ job' = job
           ELSE /\ outcome'.exc.type = "GetiRequestException"
                /\ outcome'.exc.status_code = LastAnswer(wire').status_code]_vars

\* the POST requests to the train endpoint on a wire
TrainPosts(w) == {i \in 1..Len(w) : w[i].url = TrainRequest.url /\ w[i].method = "POST"}

\* C35: train_task called with await_running_jobs true while training jobs of
\* the task are running sends the POST to the train endpoint only after
\* monitor_jobs has returned for all of those jobs: the POST appears in the
\* step that ends the monitoring of these jobs, never before or during it.
C35_TrainingSubmittedAfterMonitoring ==
    [][(/\ call.op = "train_task"
        /\ call.await_running_jobs
        /\ RunningTrainingJobListed'
        /\ TrainPosts(wire) = {}
        /\ TrainPosts(wire') # {}) =>
           /\ call.stage = "monitoring"
           /\ call'.stage = "done"
           /\ \E k \in 1..Len(call.jobs) : call.jobs[k] = Training("task", "project")
           /\ \A k \in 1..Len(call.jobs) : IsTrainJob(call.jobs[k])]_vars

\* two training jobs of the task were running, they were monitored, and the
\* training request was sent after the listing and answered
C35_Witness ==
    /\ Finished("train_task")
    /\ call.await_running_jobs
    /\ RunningTrainingJobListed
    /\ Len(call.jobs) = 2
    /\ TrainPosts(wire) # {}
    /\ \A i \in TrainPosts(wire) : i > 1
    /\ outcome.exc.type = "none"

\* the positions in a wire of the requests that open a login handshake, and
\* of the credential submissions
LoginPageRequests(w) == {i \in 1..Len(w) : w[i].url \in LoginUrls}
CredentialSubmissions(w) == ModernSubmissions(w) \cup LegacySubmissions(w)

\* C36: when the recovery path handles a 200 or a 401 on a credential-based
\* session that was logged in, a login handshake is made before the request is
\* sent again: the login-page request and the credential POST are on the wire
\* between the two dispatches, the handshake is never skipped.
C36_RecoveryLogsInAgain ==
    [][(/\ Pending("get_rest_response")
        /\ ~self.use_token
        /\ self.logged_in
        /\ call'.stage = "done"
        /\ Cardinality(Dispatches') >= 2
        /\ FirstDispatch'.response.status_code \in {200, 401}) =>
           \E i \in LoginPageRequests(wire'), j \in CredentialSubmissions(wire') :
               /\ i < j
               /\ \E d \in Dispatches' : d < i
               /\ \A d \in Dispatches' : d < i \/ j < d]_vars

\* a credential session, logged in again by the recovery of a 401, got the
\* answer of the request it sent again
C36_Witness ==
    /\ Finished("get_rest_response")
    /\ ~self.use_token
    /\ self.logged_in
    /\ Cardinality(Dispatches) = 2
    /\ FirstDispatch.response.status_code = 401
    /\ LoginPageRequests(wire) # {}
    /\ CredentialSubmissions(wire) # {}
    /\ Returned

\* the last exchange of the personal token on the wire
LastExchange == wire[CHOOSE i \in Exchanges : \A j \in Exchanges : j <= i]

\* C37: the request sent again after a successful re-authentication carries the
\* credentials as they are after the re-login: the cookie map of the session
\* for a credential-based session, the Authorization header made from the new
\* token for a token-based session, not the values of the first attempt.
C37_ResentWithNewCredentials ==
    (/\ Finished("get_rest_response")
     /\ Cardinality(Dispatches) >= 2
     /\ Reauthentications # {}) =>
        IF ~self.use_token
        THEN LastDispatch.cookies = Attached(self._cookies)
        ELSE /\ Exchanges # {}
             /\ DictGet(LastDispatch.headers, "Authorization", None) =
                    "Bearer " \o LastExchange.response.val
             /\ DictGet(LastDispatch.headers, "Authorization", None) =
                    DictGet(self.headers, "Authorization", None)

\* a credential session logged in again with a cookie map that differs from
\* the one of the first attempt, and the second attempt was answered
C37_Witness ==
    /\ Finished("get_rest_response")
    /\ ~self.use_token
    /\ Cardinality(Dispatches) = 2
    /\ Reauthentications # {}
    /\ LastDispatch.cookies # FirstDispatch.cookies
    /\ LastDispatch.cookies = Attached(self._cookies)
    /\ Returned

\* a token session exchanged its token for another bearer token than the first
\* attempt carried
C37_WitnessToken ==
    /\ Finished("get_rest_response")
    /\ self.use_token
    /\ Cardinality(Dispatches) = 2
    /\ Exchanges # {}
    /\ DictGet(LastDispatch.headers, "Authorization", None) #
           DictGet(FirstDispatch.headers, "Authorization", None)
    /\ Returned

\* C38: a token-based session established with the x-api-key mechanism keeps
\* that mechanism through recovery: after a request and its recovery the
\* headers carry the x-api-key and no Authorization header, and no request
\* went to service_accounts/access_token.
C38_ApiKeySessionKeepsMechanism ==
    [][(/\ Pending("get_rest_response")
        /\ call'.stage = "done"
        /\ self.use_token
        /\ self._auth_service # AUTHENTICATION_DEX_OLD
        /\ "x-api-key" \in DOMAIN self.headers
        /\ "Authorization" \notin DOMAIN self.headers) =>
           /\ "x-api-key" \in DOMAIN self'.headers
           /\ "Authorization" \notin DOMAIN self'.headers
           /\ \A i \in 1..Len(wire') : wire'[i].url # AccessTokenRequest.url]_vars

\* C39: for a job with a non-empty list of steps, current_step lies between 1
\* and total_steps for every combination of step states, also when every
\* step is finished, and total_steps is the number of steps.
C39_CurrentStepWithinTotal ==
    (/\ call.op = "_get_step_information"
     /\ job.steps # NoSteps
     /\ ListOfSteps(job) # <<>>) =>
        /\ 1 <= call.current_step
        /\ call.current_step <= call.total_steps
        /\ call.total_steps = Len(ListOfSteps(job))

====
